---- MODULE Spec2Model ----
(***************************************************************************)
(* Model of the Grapnel hash-intelligence backend: the notification        *)
(* dispatcher (app/services/notification_service.py), the worker loop      *)
(* (app/workers/notification_worker.py), the webhook subscription          *)
(* endpoints (app/api/v1/endpoints/notifications.py), the rate limiter     *)
(* (app/core/redis.py), the admission checks of the hash endpoints         *)
(* (app/api/v1/endpoints/hashes.py) and hash registration and lookup       *)
(* (app/services/hash_service.py).                                         *)
(***************************************************************************)
EXTENDS Integers, Sequences, FiniteSets, TLC

\* ------------------------------------------------------------------------
\* Bounds of the model (not program constants)
\* ------------------------------------------------------------------------
MaxItems == 2
MaxRaceItems == 1
MaxCalls == 4
TickSeconds == 20
FailureCap == 5
DeliveryCap == 2
MaxAdmitCalls == 102
MaxRecords == 2
MaxBatch == 2
MaxWorkerItems == 1
MaxBacklogItems == 11

\* ------------------------------------------------------------------------
\* Program constants
\* ------------------------------------------------------------------------
max_retry_attempts == 3
ScanLimit == 10
window == 60
HTTP_OK == 200
LookupLimit == 100
RegisterLimit == 50
LookupCacheExpire == 300
HTTP_SERVER_ERROR == 500
HTTP_BAD_REQUEST == 400
\* the answer to a request body that fails the validation of its schema
HTTP_UNPROCESSABLE == 422
MinHashLength == 8
MaxHashLength == 64
MinLookupItems == 1
MaxLookupItems == 100

NULL == "null"
ABSENT == "absent"

all_systems == <<"trace", "grapnel", "takedown">>
Systems == {all_systems[k] : k \in 1..Len(all_systems)}
Severities == {"low", "medium", "high", "critical"}
Urls == {"http://hook"}
\* HTTP outcomes of a webhook POST; 0 stands for a transport error (no response)
HttpOutcomes == {0, 200, 204, 500}
Dispatchers == {"worker", "inline"}

Range(s) == {s[k] : k \in 1..Len(s)}
Min(a, b) == IF a < b THEN a ELSE b

\* ------------------------------------------------------------------------
\* State
\* ------------------------------------------------------------------------
VARIABLES
    queue,      \* table notification_queue: sequence of rows, id = index
    mirror,     \* redis keys notification_queue:{id}
    subs,       \* table webhook_subscriptions: system_id -> row or NULL
    urlCache,   \* redis keys webhook:{system_id}
    disp,       \* per dispatcher: position inside _process_notification_queue
    req,        \* the request running send_hash_match_notification
    hist,       \* history per queue item: fetches, POSTs, outcomes
    rl,         \* redis keys rate_limit:{identifier}: count and ttl
    rlHist,     \* history per identifier: calls and returned counts
    tgtIn,      \* input of _determine_notification_targets under study
    tgtOut,     \* its result
    epRl,       \* redis keys rate_limit:{rate_limit_key} of the hash endpoints
    epHist,     \* history of the endpoints' admission checks
    registry,   \* table hash_registry: sequence of rows, id = index
    lookupCache, \* redis keys hash_lookup:{hash_value}
    hreq,       \* per client: position inside lookup_hashes / register_hashes
    hashHist,   \* history of the hash service: the records registrations
                \* reported, the hashes a found=False result was cached for
    subHist,    \* history per system: its last two subscription requests
    subResp,    \* the last request to POST /subscribe and its answer
    worker      \* NotificationWorker: its running flag and its position in start()

vars == <<queue, mirror, subs, urlCache, disp, req, hist, rl, rlHist, tgtIn, tgtOut,
          epRl, epHist, registry, lookupCache, hreq, hashHist, subHist, subResp,
          worker>>
queueVars == <<queue, mirror, subs, urlCache, disp, req, hist>>
rateVars == <<rl, rlHist>>
tgtVars == <<tgtIn, tgtOut>>
admitVars == <<epRl, epHist>>
hashVars == <<registry, lookupCache, hreq, hashHist>>
subVars == <<subHist, subResp>>
outsideWorker == <<rateVars, tgtVars, admitVars, hashVars, subVars>>
outsideQueue == <<rateVars, tgtVars, admitVars, hashVars, subVars, worker>>
outsideRate == <<queueVars, tgtVars, admitVars, hashVars, subVars, worker>>
outsideTargets == <<queueVars, rateVars, admitVars, hashVars, subVars, worker>>
outsideAdmit == <<queueVars, rateVars, tgtVars, hashVars, subVars, worker>>
outsideHash == <<queueVars, rateVars, tgtVars, admitVars, subVars, worker>>
outsideSubs == <<rateVars, tgtVars, admitVars, hashVars, subResp, worker>>
outsideSubscribe == <<rateVars, tgtVars, admitVars, hashVars, worker>>

\* ------------------------------------------------------------------------
\* _determine_notification_targets
\* ------------------------------------------------------------------------
MatchInputs ==
    [new_source_system : Systems \cup {NULL},
     existing_source_system : Systems \cup {NULL},
     severity : Severities \cup {ABSENT}]

\* the match events fed to the pipeline: matches reported by trace
MatchEvents ==
    [new_source_system : {"trace"},
     existing_source_system : {"grapnel", NULL},
     severity : {"low", "critical"}]

NoMatch == [new_source_system |-> NULL, existing_source_system |-> NULL,
            severity |-> ABSENT]

RECURSIVE AppendOthers(_, _, _, _)
\* for system in all_systems: if system != new_source and system not in targets
AppendOthers(targets, systems, k, new_source) ==
    IF k > Len(systems) THEN targets
    ELSE LET system == systems[k]
         IN  IF system # new_source /\ system \notin Range(targets)
             THEN AppendOthers(Append(targets, system), systems, k + 1, new_source)
             ELSE AppendOthers(targets, systems, k + 1, new_source)

ExistingFirst(existing_source, new_source) ==
    IF existing_source # NULL THEN <<existing_source>> ELSE <<>>

determine_notification_targets(match_data) ==
    LET new_source == match_data.new_source_system
        existing_source == match_data.existing_source_system
        targets == ExistingFirst(existing_source, new_source)
        severity == IF match_data.severity = ABSENT THEN "medium"
                    ELSE match_data.severity
    IN  IF severity \in {"high", "critical"}
        THEN AppendOthers(targets, all_systems, 1, new_source)
        ELSE targets

\* ------------------------------------------------------------------------
\* Tables and cache keys of the notification pipeline
\* ------------------------------------------------------------------------
ItemIds == 1..Len(queue)
\* history counters stop counting at their cap
Count(n, cap) == IF n < cap THEN n + 1 ELSE n
\* delivered: POSTs answered with success; failures: attempts written as not
\* successful; raced: fetched while another execution still held the row;
\* posts: the POSTs made in the attempts for the row, each with its payload
\* and whether it was answered with success
NoHistory == [delivered |-> 0, failures |-> 0, raced |-> FALSE, posts |-> {}]
NoAttempt == [success |-> FALSE, posted |-> FALSE, code |-> 0, url |-> NULL]
NoSubscription == [present |-> FALSE, webhook_url |-> NULL, active |-> FALSE]
IdleDispatcher == [pc |-> "idle", batch |-> <<>>, skipped |-> {}, cur |-> NoAttempt]
IdleRequest == [pc |-> "idle", match_id |-> 0, match_data |-> NoMatch, todo |-> <<>>]

Busy(d) == disp[d].pc # "idle"

\* the partner systems that have a notification queued: the only ones whose
\* subscription the dispatcher ever reads
TargetSystems == {queue[i].target_system : i \in ItemIds}

\* notification_data of _queue_notification
NewNotification(notification_id, target_system, notification_type, payload) ==
    [match_id |-> notification_id,
     target_system |-> target_system,
     notification_type |-> notification_type,
     payload |-> payload,
     status |-> "pending",
     retry_count |-> 0,
     sent_at |-> NULL]

\* ------------------------------------------------------------------------
\* send_hash_match_notification: targets, then one _queue_notification per
\* target, then the inline _process_notification_queue
\* ------------------------------------------------------------------------
send_hash_match_notification(match_data) ==
    /\ req.pc = "idle"
    /\ req' = [pc |-> "queue",
               match_id |-> Len(queue) + 1,
               match_data |-> match_data,
               todo |-> determine_notification_targets(match_data)]
    /\ UNCHANGED <<queue, mirror, subs, urlCache, disp, hist>>

\* variant: the loop over the targets ends after its first target
queue_notification_first_only ==
    /\ req.pc = "queue"
    /\ req.todo # <<>>
    /\ queue' = Append(queue, NewNotification(req.match_id, Head(req.todo),
                                              "hash_match", req.match_data))
    /\ mirror' = mirror \cup {Len(queue) + 1}
    /\ hist' = Append(hist, NoHistory)
    /\ req' = [req EXCEPT !.todo = <<>>]
    /\ UNCHANGED <<subs, urlCache, disp>>

\* _queue_notification(notification_id, system_id, "hash_match", match_data)
\* for the next system of systems_to_notify
queue_notification ==
    /\ req.pc = "queue"
    /\ req.todo # <<>>
    /\ queue' = Append(queue, NewNotification(req.match_id, Head(req.todo),
                                              "hash_match", req.match_data))
    /\ mirror' = mirror \cup {Len(queue) + 1}
    /\ hist' = Append(hist, NoHistory)
    /\ req' = [req EXCEPT !.todo = Tail(req.todo)]
    /\ UNCHANGED <<subs, urlCache, disp>>

\* the insert of _queue_notification raises: the loop over the targets is
\* left for the except clause of send_hash_match_notification, which returns
queue_insert_fails ==
    /\ req.pc = "queue"
    /\ req.todo # <<>>
    /\ req' = IdleRequest
    /\ UNCHANGED <<queue, mirror, subs, urlCache, disp, hist>>

\* the insert succeeds and the redis.set of the mirror key raises
queue_mirror_fails ==
    /\ req.pc = "queue"
    /\ req.todo # <<>>
    /\ queue' = Append(queue, NewNotification(req.match_id, Head(req.todo),
                                              "hash_match", req.match_data))
    /\ hist' = Append(hist, NoHistory)
    /\ req' = IdleRequest
    /\ UNCHANGED <<mirror, subs, urlCache, disp>>

\* ------------------------------------------------------------------------
\* _process_notification_queue, split at its awaits
\* ------------------------------------------------------------------------
PendingIds == {i \in ItemIds : queue[i].status = "pending"}

\* the rows of a set of ids, listed by ascending id
RECURSIVE Listed(_, _)
Listed(ids, from) ==
    IF from > Len(queue) THEN <<>>
    ELSE IF from \in ids THEN <<from>> \o Listed(ids, from + 1)
         ELSE Listed(ids, from + 1)

\* variant: the scan does not filter on status
ScanAllIds == ItemIds

\* .eq('status', 'pending'): the rows a scan may return
ScanIds == PendingIds

\* variant: the select has no limit
ScansUnlimited == {Listed(ScanIds, 1)}

\* select('*').eq('status', 'pending').limit(10) without an order: any
\* min(10, pending) of the pending rows
Scans ==
    LET n == Min(ScanLimit, Cardinality(ScanIds))
    IN  {Listed(ids, 1) : ids \in {c \in SUBSET ScanIds : Cardinality(c) = n}}

Snapshot(i) == [id |-> i, row |-> queue[i]]

\* another execution holds a snapshot of row i that it has not written back yet
HeldByOther(d, i) ==
    \E o \in Dispatchers \ {d} :
        \E k \in 1..Len(disp[o].batch) : disp[o].batch[k].id = i

MayStart(d) ==
    /\ disp[d].pc = "idle"
    /\ IF d = "inline" THEN req.pc = "queue" /\ req.todo = <<>> ELSE TRUE

process_notification_queue(d) ==
    /\ MayStart(d)
    /\ \E f \in Scans :
        /\ disp' = [disp EXCEPT ![d] = [pc |-> "loop",
                                        batch |-> [k \in DOMAIN f |-> Snapshot(f[k])],
                                        skipped |-> ItemIds \ PendingIds,
                                        cur |-> NoAttempt]]
        /\ hist' = [i \in ItemIds |->
                      IF i \in Range(f) /\ HeldByOther(d, i)
                      THEN [hist[i] EXCEPT !.raced = TRUE]
                      ELSE hist[i]]
    /\ req' = IF d = "inline" THEN [req EXCEPT !.pc = "process"] ELSE req
    /\ UNCHANGED <<queue, mirror, subs, urlCache>>

\* response.status_code == 200; a transport error (code 0) raises and gives False
Delivered(code) == code = HTTP_OK

\* variant: does not filter on active
ResolveUrlAnySubscription(target_system) ==
    IF urlCache[target_system] # NULL THEN urlCache[target_system]
    ELSE IF subs[target_system].present
         THEN subs[target_system].webhook_url
         ELSE NULL

\* the webhook URL found for a target: cache first, then the active subscription
ResolveUrl(target_system) ==
    IF urlCache[target_system] # NULL THEN urlCache[target_system]
    ELSE IF subs[target_system].present /\ subs[target_system].active
         THEN subs[target_system].webhook_url
         ELSE NULL

\* variant: the payload names the match instead of the queue row
WebhookPayloadOfMatch(notification) ==
    [event |-> notification.row.notification_type,
     data |-> notification.row.payload,
     notification_id |-> notification.row.match_id]

\* webhook_payload without its timestamp
WebhookPayload(notification) ==
    [event |-> notification.row.notification_type,
     data |-> notification.row.payload,
     notification_id |-> notification.id]

\* _send_webhook_notification(notification) for the next notification of the batch
send_webhook_notification(d) ==
    /\ disp[d].pc = "loop"
    /\ disp[d].batch # <<>>
    /\ LET notification == Head(disp[d].batch)
           target_system == notification.row.target_system
           webhook_url == ResolveUrl(target_system)
       IN  IF webhook_url = NULL
           THEN /\ disp' = [disp EXCEPT ![d].pc = "update",
                                        ![d].cur = NoAttempt]
                /\ UNCHANGED <<urlCache, hist>>
           ELSE /\ urlCache' = [urlCache EXCEPT ![target_system] = webhook_url]
                /\ \E code \in HttpOutcomes :
                    /\ disp' = [disp EXCEPT ![d].pc = "update",
                                            ![d].cur = [success |-> Delivered(code),
                                                        posted |-> TRUE,
                                                        code |-> code,
                                                        url |-> webhook_url]]
                    /\ hist' = [hist EXCEPT ![notification.id].delivered =
                                                IF Delivered(code) THEN Count(@, DeliveryCap)
                                                ELSE @,
                                            ![notification.id].posts =
                                                @ \cup {[payload |-> WebhookPayload(notification),
                                                         success |-> Delivered(code)]}]
    /\ UNCHANGED <<queue, mirror, subs, req>>

\* ------------------------------------------------------------------------
\* _send_webhook_notification split at its awaits: the cache read with the
\* select of the subscription, the cache write, the POST
\* ------------------------------------------------------------------------
\* webhook_url = await self.redis.get(...); on a miss the select of the
\* active subscription
resolve_webhook_url(d) ==
    /\ disp[d].pc = "loop"
    /\ disp[d].batch # <<>>
    /\ LET target_system == Head(disp[d].batch).row.target_system
           cached == urlCache[target_system]
       IN  disp' = [disp EXCEPT ![d] =
                IF cached # NULL
                THEN [@ EXCEPT !.pc = "post", !.cur = [NoAttempt EXCEPT !.url = cached]]
                ELSE IF subs[target_system].present /\ subs[target_system].active
                THEN [@ EXCEPT !.pc = "cache",
                               !.cur = [NoAttempt EXCEPT
                                           !.url = subs[target_system].webhook_url]]
                ELSE [@ EXCEPT !.pc = "update", !.cur = NoAttempt]]
    /\ UNCHANGED <<queue, mirror, subs, urlCache, hist, req>>

\* await self.redis.set(f"webhook:{target_system}", webhook_url, expire=3600)
cache_webhook_url(d) ==
    /\ disp[d].pc = "cache"
    /\ urlCache' = [urlCache EXCEPT ![Head(disp[d].batch).row.target_system] =
                                        disp[d].cur.url]
    /\ disp' = [disp EXCEPT ![d].pc = "post"]
    /\ UNCHANGED <<queue, mirror, subs, hist, req>>

\* response = await client.post(webhook_url, ...)
post_webhook(d) ==
    /\ disp[d].pc = "post"
    /\ LET notification == Head(disp[d].batch)
       IN  \E code \in HttpOutcomes :
            /\ disp' = [disp EXCEPT ![d].pc = "update",
                                    ![d].cur = [success |-> Delivered(code),
                                                posted |-> TRUE,
                                                code |-> code,
                                                url |-> disp[d].cur.url]]
            /\ hist' = [hist EXCEPT ![notification.id].delivered =
                                        IF Delivered(code) THEN Count(@, DeliveryCap)
                                        ELSE @,
                                    ![notification.id].posts =
                                        @ \cup {[payload |-> WebhookPayload(notification),
                                                 success |-> Delivered(code)]}]
    /\ UNCHANGED <<queue, mirror, subs, urlCache, req>>

\* variant: gives up one retry early
RetryAgainOneLess(success, retry_count) == ~success /\ retry_count < max_retry_attempts - 1

\* not success and retry_count < settings.max_retry_attempts
RetryAgain(success, retry_count) == ~success /\ retry_count < max_retry_attempts

\* variant: counts a retry for a successful attempt too
UpdateDataCountsSuccess(success, retry_count) ==
    [status |-> IF RetryAgain(success, retry_count) THEN "pending"
                ELSE IF success THEN "sent" ELSE "failed",
     retry_count |-> IF retry_count < max_retry_attempts THEN retry_count + 1
                     ELSE retry_count,
     sent_at |-> IF success THEN "ts" ELSE NULL]

\* variant: a successful attempt leaves the row pending
UpdateDataStaysPending(success, retry_count) ==
    [status |-> IF RetryAgain(success, retry_count) \/ success THEN "pending"
                ELSE "failed",
     retry_count |-> IF RetryAgain(success, retry_count) THEN retry_count + 1
                     ELSE retry_count,
     sent_at |-> IF success THEN "ts" ELSE NULL]

\* variant: a failed attempt is retried without being counted
UpdateDataNeverCounts(success, retry_count) ==
    [status |-> IF RetryAgain(success, retry_count) THEN "pending"
                ELSE IF success THEN "sent" ELSE "failed",
     retry_count |-> retry_count,
     sent_at |-> IF success THEN "ts" ELSE NULL]

\* variant: every failed attempt is counted, also the last one
UpdateDataAlwaysCounts(success, retry_count) ==
    [status |-> IF RetryAgain(success, retry_count) THEN "pending"
                ELSE IF success THEN "sent" ELSE "failed",
     retry_count |-> IF success THEN retry_count ELSE retry_count + 1,
     sent_at |-> IF success THEN "ts" ELSE NULL]

\* variant: sent_at is stamped at every attempt
UpdateDataStampsAttempt(success, retry_count) ==
    [status |-> IF RetryAgain(success, retry_count) THEN "pending"
                ELSE IF success THEN "sent" ELSE "failed",
     retry_count |-> IF RetryAgain(success, retry_count) THEN retry_count + 1
                     ELSE retry_count,
     sent_at |-> "ts"]

\* update_data of _process_notification_queue
UpdateData(success, retry_count) ==
    [status |-> IF RetryAgain(success, retry_count) THEN "pending"
                ELSE IF success THEN "sent" ELSE "failed",
     retry_count |-> IF RetryAgain(success, retry_count) THEN retry_count + 1
                     ELSE retry_count,
     sent_at |-> IF success THEN "ts" ELSE NULL]

\* update(update_data).eq('id', notification['id'])
update_notification(d) ==
    /\ disp[d].pc = "update"
    /\ LET notification == Head(disp[d].batch)
           success == disp[d].cur.success
           update_data == UpdateData(success, notification.row.retry_count)
       IN  /\ queue' = [queue EXCEPT ![notification.id] =
                          [@ EXCEPT !.status = update_data.status,
                                    !.retry_count = update_data.retry_count,
                                    !.sent_at = update_data.sent_at]]
           /\ hist' = [hist EXCEPT ![notification.id].failures =
                                       IF success THEN @ ELSE Count(@, FailureCap)]
    /\ disp' = [disp EXCEPT ![d].pc = "loop",
                            ![d].batch = Tail(disp[d].batch),
                            ![d].cur = NoAttempt]
    /\ UNCHANGED <<mirror, subs, urlCache, req>>

\* the for loop is exhausted: the worker sleeps, the request returns
finish_processing(d) ==
    /\ disp[d].pc = "loop"
    /\ disp[d].batch = <<>>
    /\ disp' = [disp EXCEPT ![d] = IdleDispatcher]
    /\ req' = IF d = "inline" THEN IdleRequest ELSE req
    /\ UNCHANGED <<queue, mirror, subs, urlCache, hist>>

\* ------------------------------------------------------------------------
\* Failures of the store and the cache inside _process_notification_queue
\* ------------------------------------------------------------------------
\* the select of the pending rows raises: control is in the except clause
scan_fails(d) ==
    /\ MayStart(d)
    /\ disp' = [disp EXCEPT ![d] = [IdleDispatcher EXCEPT !.pc = "except"]]
    /\ req' = IF d = "inline" THEN [req EXCEPT !.pc = "process"] ELSE req
    /\ UNCHANGED <<queue, mirror, subs, urlCache, hist>>

\* variant: the except clause of _send_webhook_notification answers True
send_fails_answers_true(d) ==
    /\ disp[d].pc = "loop"
    /\ disp[d].batch # <<>>
    /\ disp' = [disp EXCEPT ![d].pc = "update",
                            ![d].cur = [NoAttempt EXCEPT !.success = TRUE]]
    /\ UNCHANGED <<queue, mirror, subs, urlCache, hist, req>>

\* redis.get, the subscription select or redis.set raises inside
\* _send_webhook_notification: it is caught there and the answer is False
send_fails(d) ==
    /\ disp[d].pc = "loop"
    /\ disp[d].batch # <<>>
    /\ disp' = [disp EXCEPT ![d].pc = "update", ![d].cur = NoAttempt]
    /\ UNCHANGED <<queue, mirror, subs, urlCache, hist, req>>

\* the update of the row raises: the rest of the batch is abandoned
update_fails(d) ==
    /\ disp[d].pc = "update"
    /\ disp' = [disp EXCEPT ![d].pc = "except"]
    /\ UNCHANGED <<queue, mirror, subs, urlCache, hist, req>>

\* except Exception as e: print(...); _process_notification_queue returns
process_queue_except(d) ==
    /\ disp[d].pc = "except"
    /\ disp' = [disp EXCEPT ![d] = IdleDispatcher]
    /\ req' = IF d = "inline" THEN IdleRequest ELSE req
    /\ UNCHANGED <<queue, mirror, subs, urlCache, hist>>

\* ------------------------------------------------------------------------
\* The worker loop (workers/notification_worker.py)
\* ------------------------------------------------------------------------
\* stopped: stop() has been called; failed: a call of the tick under way or
\* of the last tick failed
NewWorker == [pc |-> "new", running |-> FALSE, stopped |-> FALSE, failed |-> FALSE]

\* variant: while True
keeps_running_always(w) == TRUE

\* while self.running
keeps_running(w) == w.running

\* self.running = True, then the first evaluation of the loop condition
start ==
    /\ worker.pc = "new"
    /\ worker' = [worker EXCEPT !.pc = "check", !.running = TRUE]
    /\ UNCHANGED queueVars

\* the loop condition holds: await notification_service._process_notification_queue()
worker_tick ==
    /\ worker.pc = "check"
    /\ keeps_running(worker)
    /\ worker' = [worker EXCEPT !.pc = "tick", !.failed = FALSE]

\* the loop condition fails: start() returns
worker_returns ==
    /\ worker.pc = "check"
    /\ ~keeps_running(worker)
    /\ worker' = [worker EXCEPT !.pc = "returned"]
    /\ UNCHANGED queueVars

\* the tick has returned: await asyncio.sleep(5)
worker_sleeps ==
    /\ worker.pc = "tick"
    /\ worker' = [worker EXCEPT !.pc = "sleep"]

\* the sleep is over: back to the loop condition
worker_wakes ==
    /\ worker.pc = "sleep"
    /\ worker' = [worker EXCEPT !.pc = "check"]
    /\ UNCHANGED queueVars

\* variant: an error inside the tick ends the loop, as KeyboardInterrupt does
worker_after_failure_breaks(w) == [w EXCEPT !.pc = "returned", !.failed = TRUE]

\* the error was caught inside _process_notification_queue (start() has an
\* except Exception of its own): the loop goes on with its sleep
worker_after_failure(w) == [w EXCEPT !.pc = "sleep", !.failed = TRUE]

\* a delivery attempt of the worker's tick that gave False
worker_attempt(w, d, success) ==
    IF d = "worker" /\ ~success THEN [w EXCEPT !.failed = TRUE] ELSE w

\* stop(): self.running = False
stop ==
    /\ worker.running
    /\ worker' = [worker EXCEPT !.running = FALSE, !.stopped = TRUE]
    /\ UNCHANGED queueVars

\* ------------------------------------------------------------------------
\* Webhook subscriptions
\* ------------------------------------------------------------------------
\* variant: an insert that leaves an existing row alone
subscribe_webhook_if_absent(system_id, webhook_url) ==
    /\ subs' = [subs EXCEPT ![system_id] =
                  IF @.present THEN @
                  ELSE [present |-> TRUE, webhook_url |-> webhook_url, active |-> TRUE]]
    /\ urlCache' = [urlCache EXCEPT ![system_id] = webhook_url]
    /\ UNCHANGED <<queue, mirror, disp, req, hist>>

\* upsert(subscription_data, on_conflict="system_id"), then redis.set of the URL
subscribe_webhook(system_id, webhook_url) ==
    /\ subs' = [subs EXCEPT ![system_id] = [present |-> TRUE, webhook_url |-> webhook_url,
                                             active |-> TRUE]]
    /\ urlCache' = [urlCache EXCEPT ![system_id] = webhook_url]
    /\ UNCHANGED <<queue, mirror, disp, req, hist>>

\* variant: the row is deleted
unsubscribe_webhook_deletes_row(system_id) ==
    /\ subs' = [subs EXCEPT ![system_id] = NoSubscription]
    /\ urlCache' = [urlCache EXCEPT ![system_id] = NULL]
    /\ UNCHANGED <<queue, mirror, disp, req, hist>>

\* update({"active": False}).eq('system_id', system_id), then redis.delete
unsubscribe_webhook(system_id) ==
    /\ subs' = [subs EXCEPT ![system_id] =
                  IF @.present THEN [@ EXCEPT !.active = FALSE] ELSE @]
    /\ urlCache' = [urlCache EXCEPT ![system_id] = NULL]
    /\ UNCHANGED <<queue, mirror, disp, req, hist>>

\* GET /subscriptions/{system_id}: the URL of the active subscription, or 404
get_subscription(system_id) ==
    IF subs[system_id].present /\ subs[system_id].active
    THEN subs[system_id].webhook_url
    ELSE NULL

SubscriberUrls == {"http://hook", "https://hook2"}
NoSubscriptionRequest == [op |-> NULL, webhook_url |-> NULL]
NoSubscriptionRequests == [last |-> NoSubscriptionRequest, before |-> NoSubscriptionRequest]

\* the request just served becomes the last one of the system
Requested(system_id, op, webhook_url) ==
    subHist' = [subHist EXCEPT ![system_id] =
                  [last |-> [op |-> op, webhook_url |-> webhook_url],
                   before |-> @.last]]

\* POST /subscribe: the URLs and system ids a caller may send; a URL is the
\* sequence of its characters
RequestUrls ==
    {<<"h", "t", "t", "p", ":", "/", "/", "h">>,
     <<"h", "t", "t", "p", "s", ":", "/", "/", "h">>,
     <<"H", "T", "T", "P", ":", "/", "/", "h">>,
     <<"f", "t", "p", ":", "/", "/", "h">>,
     <<"h", "t", "t", "p", ":", "/">>,
     <<>>}
RequestSystemIds == {"trace", "grapnel", "Trace", "other"}

RECURSIVE Text(_)
\* the string of a sequence of characters
Text(chars) == IF chars = <<>> THEN "" ELSE Head(chars) \o Text(Tail(chars))

\* variant: any string passes
StartsWithAnything(chars, prefixes) == TRUE

\* str.startswith(prefixes)
StartsWith(chars, prefixes) ==
    \E prefix \in prefixes :
        /\ Len(prefix) <= Len(chars)
        /\ \A n \in 1..Len(prefix) : chars[n] = prefix[n]

\* ('http://', 'https://')
UrlPrefixes ==
    {<<"h", "t", "t", "p", ":", "/", "/">>, <<"h", "t", "t", "p", "s", ":", "/", "/">>}

valid_systems == {"trace", "grapnel", "takedown"}

NoSubscribeRequest == [system_id |-> NULL, webhook_url |-> <<>>, status |-> 0]

\* the endpoint subscribe_webhook: two validations, then the service call
post_subscribe(system_id, webhook_url) ==
    IF ~StartsWith(webhook_url, UrlPrefixes) \/ system_id \notin valid_systems
    THEN /\ subResp' = [system_id |-> system_id, webhook_url |-> webhook_url,
                        status |-> HTTP_BAD_REQUEST]
         /\ UNCHANGED <<queueVars, subHist>>
    ELSE /\ subscribe_webhook(system_id, Text(webhook_url))
         /\ Requested(system_id, "subscribe", Text(webhook_url))
         /\ subResp' = [system_id |-> system_id, webhook_url |-> webhook_url,
                        status |-> HTTP_OK]

\* a redis key set with expire=3600 disappears when its TTL runs out
ExpireWebhookUrl(system_id) ==
    /\ urlCache[system_id] # NULL
    /\ urlCache' = [urlCache EXCEPT ![system_id] = NULL]
    /\ UNCHANGED <<queue, mirror, subs, disp, req, hist>>

\* ------------------------------------------------------------------------
\* Rate limiter: RedisManager.increment_rate_limit
\* ------------------------------------------------------------------------
Identifiers == {"trace", "grapnel"}

\* variant: one counter for all identifiers
RateKeyShared(identifier) == "rate_limit:" \o "trace"

\* key = f"rate_limit:{identifier}"
RateKey(identifier) == "rate_limit:" \o identifier

RateKeys == {RateKey(identifier) : identifier \in Identifiers}

\* a key that does not exist has count 0
NoCounter == [count |-> 0, ttl |-> 0]
\* since: seconds since the identifier's last call; age: seconds since its
\* window opened; calls: its calls in that window; last: the last count returned
NoCalls == [since |-> window, age |-> window, calls |-> 0, last |-> 0]

\* pipe.incr(key); pipe.expire(key, window); pipe.execute() -> results[0]
IncrExpire(counter) == [count |-> counter.count + 1, ttl |-> window]

\* a window opens with a call made at least `window` seconds after the
\* identifier's previous call (or with its first call)
increment_rate_limit(identifier) ==
    /\ rl[RateKey(identifier)].count < MaxCalls
    /\ rl' = [rl EXCEPT ![RateKey(identifier)] = IncrExpire(@)]
    /\ rlHist' = [rlHist EXCEPT ![identifier] =
                    IF @.since >= window
                    THEN [since |-> 0, age |-> 0, calls |-> 1,
                          last |-> rl'[RateKey(identifier)].count]
                    ELSE [since |-> 0, age |-> @.age, calls |-> @.calls + 1,
                          last |-> rl'[RateKey(identifier)].count]]

\* TickSeconds pass: redis deletes the keys whose TTL has run out
Tick ==
    /\ rl' = [k \in RateKeys |->
                IF rl[k].count = 0 \/ rl[k].ttl <= TickSeconds THEN NoCounter
                ELSE [rl[k] EXCEPT !.ttl = @ - TickSeconds]]
    /\ rlHist' = [identifier \in Identifiers |->
                    [rlHist[identifier] EXCEPT
                        !.since = Min(window, @ + TickSeconds),
                        !.age = Min(window, @ + TickSeconds)]]

\* ------------------------------------------------------------------------
\* Admission of the hash endpoints (api/v1/endpoints/hashes.py): the rate
\* limiting check at the head of lookup_hashes and register_hashes
\* ------------------------------------------------------------------------
Operations == {"lookup", "register"}
AdmitSystems == {"trace"}

\* rate_limit_key = f"rate_limit:{source_system.value}", in both endpoints
RateLimitIdentifier(operation, source_system) == "rate_limit:" \o source_system

\* if current_requests > 100 (lookup), > 50 (register)
Limit(operation) == IF operation = "lookup" THEN LookupLimit ELSE RegisterLimit

AdmitKeys ==
    {RateKey(RateLimitIdentifier(operation, source_system)) :
        operation \in Operations, source_system \in AdmitSystems}

\* made: the requests of each kind a system made in the life of the counter
\* consulted for that kind; last: the latest request, how many of its kind the
\* system had made by then, and its answer
NoRequests ==
    [made |-> [source_system \in AdmitSystems |-> [operation \in Operations |-> 0]],
     last |-> [operation |-> NULL, source_system |-> NULL, made |-> 0,
               rejected |-> FALSE]]

\* current_requests = await redis_manager.increment_rate_limit(rate_limit_key);
\* HTTP 429 when it exceeds the limit of the endpoint
RateLimitCheck(operation, source_system) ==
    LET key == RateKey(RateLimitIdentifier(operation, source_system))
        counter == IncrExpire(epRl[key])
        current_requests == counter.count
    IN  /\ epRl[key].count < MaxAdmitCalls
        /\ epRl' = [epRl EXCEPT ![key] = counter]
        /\ epHist' =
             [made |-> [epHist.made EXCEPT ![source_system][operation] = @ + 1],
              last |-> [operation |-> operation,
                        source_system |-> source_system,
                        made |-> epHist.made[source_system][operation] + 1,
                        rejected |-> current_requests > Limit(operation)]]

\* TickSeconds pass: redis deletes the keys whose TTL has run out
AdmitTick ==
    /\ epRl' = [k \in AdmitKeys |->
                  IF epRl[k].count = 0 \/ epRl[k].ttl <= TickSeconds THEN NoCounter
                  ELSE [epRl[k] EXCEPT !.ttl = @ - TickSeconds]]
    /\ epHist' =
         [epHist EXCEPT !.made =
            [source_system \in AdmitSystems |-> [operation \in Operations |->
                IF epRl'[RateKey(RateLimitIdentifier(operation, source_system))].count = 0
                THEN 0 ELSE epHist.made[source_system][operation]]]]

\* ------------------------------------------------------------------------
\* Hash registration and lookup (services/hash_service.py), split at the
\* awaits and the store calls
\* ------------------------------------------------------------------------
Clients == {"c1", "c2"}
Hashes == {"aaaaaaaa", "bbbbbbbb"}
HashSystems == {"trace", "grapnel"}
HashSeverities == {"low", "high"}
\* outcomes of a store call and of a cache call
StoreOutcomes == {"ok", "nodata", "raise"}
CacheOutcomes == {"ok", "raise"}

\* HashRegisterRequest: hash_value and severity (every record carries metadata)
RegisterRequests == [hash_value : Hashes, severity : HashSeverities]

RECURSIVE SeqsUpTo(_, _)
\* the sequences over a set of at most n elements
SeqsUpTo(S, n) ==
    IF n = 0 THEN {<<>>}
    ELSE LET shorter == SeqsUpTo(S, n - 1)
         IN  shorter \cup {Append(q, x) : q \in shorter, x \in S}

NoCacheEntry == [present |-> FALSE, found |-> FALSE, sources |-> <<>>, expire |-> 0]

IdleClient ==
    [pc |-> "idle", op |-> NULL, source_system |-> NULL, include_metadata |-> FALSE,
     body |-> <<>>, hashes |-> <<>>, records |-> <<>>, k |-> 0,
     matches |-> <<>>, cached_results |-> 0,
     total_matches |-> 0,
     registered_count |-> 0, errors |-> <<>>, hash_ids |-> <<>>,
     status |-> 0, outcomes |-> <<>>, cache_failed |-> FALSE]

HashBusy(c) == hreq[c].pc # "idle"

\* HashMatch(hash=hash_value, found=False)
NotFound(hash_value) == [hash |-> hash_value, found |-> FALSE, sources |-> <<>>]

\* source_data of one record
SourceData(record, include_metadata) ==
    [system |-> record.source_system,
     severity |-> record.severity_level,
     metadata |-> IF include_metadata /\ record.metadata # NULL
                  THEN record.metadata ELSE ABSENT]

RECURSIVE SelectByHash(_, _)
\* select('*').eq('hash_value', hash_value): the matching rows from row `from` on
SelectByHash(hash_value, from) ==
    IF from > Len(registry) THEN <<>>
    ELSE IF registry[from].hash_value = hash_value
         THEN <<registry[from]>> \o SelectByHash(hash_value, from + 1)
         ELSE SelectByHash(hash_value, from + 1)

\* variant: only the first matching row is reported
SourcesOfFirst(data, include_metadata) == <<SourceData(data[1], include_metadata)>>

\* for record in result.data: sources.append(source_data)
SourcesOf(data, include_metadata) ==
    [n \in 1..Len(data) |-> SourceData(data[n], include_metadata)]

\* _query_hash_from_db; an exception of the store is caught and answered found=False
query_hash_from_db(hash_value, include_metadata, outcome) ==
    IF outcome = "raise" THEN NotFound(hash_value)
    ELSE LET data == SelectByHash(hash_value, 1)
         IN  IF data = <<>> THEN NotFound(hash_value)
             ELSE [hash |-> hash_value, found |-> TRUE,
                   sources |-> SourcesOf(data, include_metadata)]

\* the request at the first hash of lookup_hashes
LookupEntered(hashes, include_metadata) ==
    [IdleClient EXCEPT !.pc = "get", !.op = "lookup",
                       !.hashes = hashes,
                       !.include_metadata = include_metadata,
                       !.k = 1]

\* POST /lookup, admitted
StartLookup(c, hashes, include_metadata) ==
    /\ hreq[c].pc = "idle"
    /\ hashes # <<>>
    /\ hreq' = [hreq EXCEPT ![c] = LookupEntered(hashes, include_metadata)]
    /\ UNCHANGED <<registry, lookupCache, hashHist>>

\* ------------------------------------------------------------------------
\* HashLookupRequest: the validation of the body of POST /lookup; a raw hash
\* is a sequence of characters
\* ------------------------------------------------------------------------
Repeat(ch, n) == [k \in 1..n |-> ch]

\* the raw hashes a body may hold: the two hashes as stored, with surrounding
\* whitespace and capitals, too short once stripped, empty, too long
RawHashes ==
    {Repeat("a", 8),
     <<" ", "A">> \o Repeat("a", 7) \o <<" ">>,
     Repeat("B", 8),
     <<" ">> \o Repeat("a", 7),
     <<>>,
     Repeat("a", MaxHashLength + 1)}

\* the bodies: up to MaxBatch raw hashes, and one list too many
RawBatches ==
    SeqsUpTo(RawHashes, MaxBatch) \cup {Repeat(Repeat("a", 8), MaxLookupItems + 1)}

Whitespace == {" ", "\t", "\n"}

RECURSIVE StripLeft(_)
StripLeft(chars) ==
    IF chars # <<>> /\ Head(chars) \in Whitespace THEN StripLeft(Tail(chars)) ELSE chars

RECURSIVE StripRight(_)
StripRight(chars) ==
    IF chars # <<>> /\ chars[Len(chars)] \in Whitespace
    THEN StripRight(SubSeq(chars, 1, Len(chars) - 1)) ELSE chars

\* str.strip()
Strip(chars) == StripRight(StripLeft(chars))

LowerChar(ch) == IF ch = "A" THEN "a" ELSE IF ch = "B" THEN "b" ELSE ch

\* str.lower()
Lower(chars) == [k \in 1..Len(chars) |-> LowerChar(chars[k])]

\* cleaned = hash_val.strip().lower()
Cleaned(hash_val) == Lower(Strip(hash_val))

\* variant: the length of the hash as sent is checked
CheckedLengthOfRaw(hash_val) == Len(hash_val)

\* the length the validator checks: len(cleaned)
CheckedLength(hash_val) == Len(Cleaned(hash_val))

\* Field(..., min_items=1, max_items=100) and validate_hashes: the cleaned
\* hashes, or a ValueError
validate_hashes(v) ==
    IF \/ Len(v) < MinLookupItems
       \/ Len(v) > MaxLookupItems
       \/ \E k \in 1..Len(v) : \/ CheckedLength(v[k]) < MinHashLength
                                \/ CheckedLength(v[k]) > MaxHashLength
    THEN [valid |-> FALSE, hashes |-> <<>>]
    ELSE [valid |-> TRUE, hashes |-> [k \in 1..Len(v) |-> Text(Cleaned(v[k]))]]

\* the request after the validation of its body: answered 422, or at the
\* first hash of lookup_hashes with the cleaned hashes
lookup_request(body, include_metadata) ==
    LET request == validate_hashes(body)
    IN  IF request.valid
        THEN [LookupEntered(request.hashes, include_metadata) EXCEPT !.body = body]
        ELSE [IdleClient EXCEPT !.pc = "done", !.op = "lookup", !.body = body,
                                !.include_metadata = include_metadata,
                                !.status = HTTP_UNPROCESSABLE]

\* POST /lookup with any body
post_lookup(c, body, include_metadata) ==
    /\ hreq[c].pc = "idle"
    /\ hreq' = [hreq EXCEPT ![c] = lookup_request(body, include_metadata)]
    /\ UNCHANGED <<registry, lookupCache, hashHist>>

\* the exception leaves the service; the endpoint answers HTTP 500
ServerError(r) == [r EXCEPT !.pc = "done", !.status = HTTP_SERVER_ERROR]

\* variant: counts every entry
TotalMatchesAll(matches) == Len(matches)

\* total_matches=sum(1 for m in matches if m.found)
TotalMatches(matches) == Cardinality({n \in 1..Len(matches) : matches[n].found})

\* next hash of the request, or return HashLookupResponse
NextHash(r) ==
    IF r.k = Len(r.hashes)
    THEN [r EXCEPT !.pc = "done", !.status = HTTP_OK,
                   !.total_matches = TotalMatches(r.matches)]
    ELSE [r EXCEPT !.pc = "get", !.k = @ + 1]

\* cached_result = await self.redis.get_cached_hash_lookup(hash_value)
CacheGet(c, outcome) ==
    /\ hreq[c].pc = "get"
    /\ LET r == hreq[c]
           hash_value == r.hashes[r.k]
           cached_result == lookupCache[hash_value]
       IN  hreq' = [hreq EXCEPT ![c] =
                IF outcome = "raise" THEN ServerError(r)
                ELSE IF cached_result.present
                THEN NextHash([r EXCEPT
                        !.matches = Append(@, [hash |-> hash_value,
                                               found |-> cached_result.found,
                                               sources |-> cached_result.sources]),
                        !.cached_results = @ + 1,
                        !.outcomes = Append(@, "cached")])
                ELSE [r EXCEPT !.pc = "query"]]
    /\ UNCHANGED <<registry, lookupCache, hashHist>>

\* match_result = await self._query_hash_from_db(hash_value, include_metadata)
QueryDb(c, outcome) ==
    /\ hreq[c].pc = "query"
    /\ LET r == hreq[c]
           match_result == query_hash_from_db(r.hashes[r.k], r.include_metadata, outcome)
       IN  hreq' = [hreq EXCEPT ![c] =
                      [r EXCEPT !.pc = "set",
                                !.matches = Append(@, match_result),
                                !.outcomes = Append(@, outcome)]]
    /\ UNCHANGED <<registry, lookupCache, hashHist>>

\* await self.redis.cache_hash_lookup(hash_value, match_result.dict())
CacheSet(c, outcome) ==
    /\ hreq[c].pc = "set"
    /\ LET r == hreq[c]
           hash_value == r.hashes[r.k]
           match_result == r.matches[Len(r.matches)]
       IN  IF outcome = "raise"
           THEN /\ hreq' = [hreq EXCEPT ![c] = ServerError([r EXCEPT !.cache_failed = TRUE])]
                /\ UNCHANGED <<lookupCache, hashHist>>
           ELSE /\ hreq' = [hreq EXCEPT ![c] = NextHash(r)]
                /\ lookupCache' = [lookupCache EXCEPT ![hash_value] =
                                     [present |-> TRUE,
                                      found |-> match_result.found,
                                      sources |-> match_result.sources,
                                      expire |-> LookupCacheExpire]]
                /\ hashHist' = IF match_result.found THEN hashHist
                               ELSE [hashHist EXCEPT !.negative = @ \cup {hash_value}]
    /\ UNCHANGED registry

\* POST /register, admitted
StartRegister(c, source_system, records) ==
    /\ hreq[c].pc = "idle"
    /\ hreq' = [hreq EXCEPT ![c] =
                  IF records = <<>>
                  THEN [IdleClient EXCEPT !.pc = "done", !.op = "register",
                                          !.source_system = source_system,
                                          !.status = HTTP_OK]
                  ELSE [IdleClient EXCEPT !.pc = "insert", !.op = "register",
                                          !.source_system = source_system,
                                          !.records = records, !.k = 1]]
    /\ UNCHANGED <<registry, lookupCache, hashHist>>

\* data of _create_new_hash_entry
NewHashEntry(hash_request, source_system) ==
    [hash_value |-> hash_request.hash_value,
     source_system |-> source_system,
     severity_level |-> hash_request.severity,
     metadata |-> "m"]

\* variant: the batch ends at the first record that could not be inserted
NextRecordUntilFailure(r) ==
    IF r.k = Len(r.records) \/ r.outcomes[r.k] # "ok"
    THEN [r EXCEPT !.pc = "done", !.status = HTTP_OK]
    ELSE [r EXCEPT !.pc = "insert", !.k = @ + 1]

\* next record of the batch, or return HashRegisterResponse
NextRecord(r) ==
    IF r.k = Len(r.records) THEN [r EXCEPT !.pc = "done", !.status = HTTP_OK]
    ELSE [r EXCEPT !.pc = "insert", !.k = @ + 1]

\* the records a finished registration reports as registered without an error
ReportedBy(r) ==
    {NewHashEntry(r.records[n], r.source_system) :
        n \in {m \in 1..Len(r.records) :
                 /\ m <= Len(r.outcomes)
                 /\ r.outcomes[m] = "ok"
                 /\ r.records[m].hash_value \notin Range(r.errors)}}

Reports(r) ==
    IF r.pc = "done" /\ r.op = "register" /\ r.status = HTTP_OK
    THEN [hashHist EXCEPT !.reported = @ \cup ReportedBy(r)] ELSE hashHist

\* variant: the cache entry survives a registration
InvalidateNothing(cache, hash_value) == cache

\* redis.delete(f"hash_lookup:{hash_value}")
Invalidate(cache, hash_value) == [cache EXCEPT ![hash_value] = NoCacheEntry]

\* hash_id = await self._create_new_hash_entry(hash_request, source_system):
\* an insert that raises or returns no data gives None, and nothing is recorded
CreateEntry(c, outcome) ==
    /\ hreq[c].pc = "insert"
    /\ LET r == hreq[c]
           hash_request == r.records[r.k]
           seen == [r EXCEPT !.outcomes = Append(@, outcome)]
       IN  IF outcome = "ok"
           THEN /\ registry' = Append(registry, NewHashEntry(hash_request, r.source_system))
                /\ hreq' = [hreq EXCEPT ![c] =
                              [seen EXCEPT !.pc = "delete",
                                           !.hash_ids = Append(@, Len(registry) + 1),
                                           !.registered_count = @ + 1]]
                /\ UNCHANGED hashHist
           ELSE /\ hreq' = [hreq EXCEPT ![c] = NextRecord(seen)]
                /\ hashHist' = Reports(NextRecord(seen))
                /\ UNCHANGED registry
    /\ UNCHANGED lookupCache

\* await self.redis.delete(f"hash_lookup:{hash_request.hash_value}"); its
\* exception is caught by the except of the loop body and recorded as an error
CacheDelete(c, outcome) ==
    /\ hreq[c].pc = "delete"
    /\ LET r == hreq[c]
           hash_value == r.records[r.k].hash_value
           after == IF outcome = "raise"
                    THEN NextRecord([r EXCEPT !.errors = Append(@, hash_value),
                                              !.cache_failed = TRUE])
                    ELSE NextRecord(r)
       IN  /\ hreq' = [hreq EXCEPT ![c] = after]
           /\ hashHist' = Reports(after)
           /\ lookupCache' = IF outcome = "raise" THEN lookupCache
                             ELSE Invalidate(lookupCache, hash_value)
    /\ UNCHANGED registry

\* the response has been sent; the client may issue its next request
Return(c) ==
    /\ hreq[c].pc = "done"
    /\ hreq' = [hreq EXCEPT ![c] = IdleClient]
    /\ UNCHANGED <<registry, lookupCache, hashHist>>

\* a redis key set with expire=300 disappears when its TTL runs out
ExpireLookup(hash_value) ==
    /\ lookupCache[hash_value].present
    /\ lookupCache' = [lookupCache EXCEPT ![hash_value] = NoCacheEntry]
    /\ UNCHANGED <<registry, hreq, hashHist>>

\* ------------------------------------------------------------------------
\* Target computation on its own
\* ------------------------------------------------------------------------
NotComputed == [done |-> FALSE, targets |-> <<>>]

ComputeTargets ==
    /\ ~tgtOut.done
    /\ tgtOut' = [done |-> TRUE, targets |-> determine_notification_targets(tgtIn)]
    /\ UNCHANGED tgtIn

NextMatch ==
    /\ tgtOut.done
    /\ tgtIn' \in MatchInputs
    /\ tgtOut' = NotComputed

\* ------------------------------------------------------------------------
\* Specification of the notification pipeline
\* ------------------------------------------------------------------------
Init ==
    /\ queue = <<>>
    /\ mirror = {}
    /\ subs = [s \in Systems |-> NoSubscription]
    /\ urlCache = [s \in Systems |-> NULL]
    /\ disp = [d \in Dispatchers |-> IdleDispatcher]
    /\ req = IdleRequest
    /\ hist = <<>>
    /\ rl = [k \in RateKeys |-> NoCounter]
    /\ rlHist = [identifier \in Identifiers |-> NoCalls]
    /\ tgtIn = NoMatch
    /\ tgtOut = NotComputed
    /\ epRl = [k \in AdmitKeys |-> NoCounter]
    /\ epHist = NoRequests
    /\ registry = <<>>
    /\ lookupCache = [h \in Hashes |-> NoCacheEntry]
    /\ hreq = [c \in Clients |-> IdleClient]
    /\ hashHist = [reported |-> {}, negative |-> {}]
    /\ subHist = [s \in Systems |-> NoSubscriptionRequests]
    /\ subResp = NoSubscribeRequest
    /\ worker = NewWorker

\* at most MaxRaceItems rows when dispatchers interleave freely
Next ==
    \/ /\ \E match_data \in MatchEvents :
            /\ Len(queue) + Len(determine_notification_targets(match_data)) <= MaxRaceItems
            /\ send_hash_match_notification(match_data)
       /\ UNCHANGED outsideQueue
    \/ queue_notification /\ UNCHANGED outsideQueue
    \/ \E d \in Dispatchers : process_notification_queue(d) /\ UNCHANGED outsideQueue
    \/ \E d \in Dispatchers : send_webhook_notification(d) /\ UNCHANGED outsideQueue
    \/ \E d \in Dispatchers : update_notification(d) /\ UNCHANGED outsideQueue
    \/ \E d \in Dispatchers : finish_processing(d) /\ UNCHANGED outsideQueue
    \/ \E s \in TargetSystems, u \in Urls : subscribe_webhook(s, u) /\ UNCHANGED outsideQueue
    \/ \E s \in TargetSystems : unsubscribe_webhook(s) /\ UNCHANGED outsideQueue
    \/ \E s \in TargetSystems : ExpireWebhookUrl(s) /\ UNCHANGED outsideQueue

\* the worker loop and the request handlers run concurrently
Spec == Init /\ [][Next]_vars

\* A single dispatcher: executions of _process_notification_queue do not overlap
NoOtherBusy(d) == \A o \in Dispatchers \ {d} : ~Busy(o)

SingleNext ==
    \/ /\ \E match_data \in MatchEvents :
            /\ Len(queue) + Len(determine_notification_targets(match_data)) <= MaxItems
            /\ send_hash_match_notification(match_data)
       /\ UNCHANGED outsideQueue
    \/ queue_notification /\ UNCHANGED outsideQueue
    \/ \E d \in Dispatchers :
        NoOtherBusy(d) /\ process_notification_queue(d) /\ UNCHANGED outsideQueue
    \/ \E d \in Dispatchers : send_webhook_notification(d) /\ UNCHANGED outsideQueue
    \/ \E d \in Dispatchers : update_notification(d) /\ UNCHANGED outsideQueue
    \/ \E d \in Dispatchers : finish_processing(d) /\ UNCHANGED outsideQueue
    \/ \E s \in TargetSystems, u \in Urls : subscribe_webhook(s, u) /\ UNCHANGED outsideQueue
    \/ \E s \in TargetSystems : unsubscribe_webhook(s) /\ UNCHANGED outsideQueue
    \/ \E s \in TargetSystems : ExpireWebhookUrl(s) /\ UNCHANGED outsideQueue

SpecSingle == Init /\ [][SingleNext]_vars

\* executions of _process_notification_queue, one at a time, with the URL
\* resolution split at its awaits, next to subscription requests
ResolveNext ==
    \/ /\ \E match_data \in MatchEvents :
            /\ Len(queue) + Len(determine_notification_targets(match_data)) <= MaxRaceItems
            /\ send_hash_match_notification(match_data)
       /\ UNCHANGED outsideQueue
    \/ queue_notification /\ UNCHANGED outsideQueue
    \/ \E d \in Dispatchers :
        NoOtherBusy(d) /\ process_notification_queue(d) /\ UNCHANGED outsideQueue
    \/ \E d \in Dispatchers : resolve_webhook_url(d) /\ UNCHANGED outsideQueue
    \/ \E d \in Dispatchers : cache_webhook_url(d) /\ UNCHANGED outsideQueue
    \/ \E d \in Dispatchers : post_webhook(d) /\ UNCHANGED outsideQueue
    \/ \E d \in Dispatchers : update_notification(d) /\ UNCHANGED outsideQueue
    \/ \E d \in Dispatchers : finish_processing(d) /\ UNCHANGED outsideQueue
    \/ \E s \in TargetSystems, u \in Urls : subscribe_webhook(s, u) /\ UNCHANGED outsideQueue
    \/ \E s \in TargetSystems : unsubscribe_webhook(s) /\ UNCHANGED outsideQueue
    \/ \E s \in TargetSystems : ExpireWebhookUrl(s) /\ UNCHANGED outsideQueue

SpecResolve == Init /\ [][ResolveNext]_vars

\* send_hash_match_notification with the store or the cache failing while the
\* targets are enqueued; no partner has subscribed
EnqueueNext ==
    \/ /\ \E match_data \in MatchEvents :
            /\ Len(queue) + Len(determine_notification_targets(match_data)) <= MaxItems
            /\ send_hash_match_notification(match_data)
       /\ UNCHANGED outsideQueue
    \/ queue_notification /\ UNCHANGED outsideQueue
    \/ queue_insert_fails /\ UNCHANGED outsideQueue
    \/ queue_mirror_fails /\ UNCHANGED outsideQueue
    \/ process_notification_queue("inline") /\ UNCHANGED outsideQueue
    \/ send_webhook_notification("inline") /\ UNCHANGED outsideQueue
    \/ update_notification("inline") /\ UNCHANGED outsideQueue
    \/ finish_processing("inline") /\ UNCHANGED outsideQueue

SpecEnqueue == Init /\ [][EnqueueNext]_vars

\* a backlog of more than limit(10) pending rows: matches of one kind are
\* enqueued during an outage of the select of the pending rows, which ends
\* at the earliest when more than 10 rows are pending; no partner has
\* subscribed and executions do not overlap
BacklogEvent == [new_source_system |-> "trace", existing_source_system |-> "grapnel",
                 severity |-> "low"]

BacklogNext ==
    \/ /\ Len(queue) + Len(determine_notification_targets(BacklogEvent)) <= MaxBacklogItems
       /\ send_hash_match_notification(BacklogEvent)
       /\ UNCHANGED outsideQueue
    \/ queue_notification /\ UNCHANGED outsideQueue
    \/ \E d \in Dispatchers : NoOtherBusy(d) /\ scan_fails(d) /\ UNCHANGED outsideQueue
    \/ \E d \in Dispatchers : process_queue_except(d) /\ UNCHANGED outsideQueue
    \/ \E d \in Dispatchers :
        /\ NoOtherBusy(d)
        /\ Cardinality(PendingIds) > ScanLimit
        /\ process_notification_queue(d)
        /\ UNCHANGED outsideQueue
    \/ \E d \in Dispatchers : send_webhook_notification(d) /\ UNCHANGED outsideQueue
    \/ \E d \in Dispatchers : update_notification(d) /\ UNCHANGED outsideQueue
    \/ \E d \in Dispatchers : finish_processing(d) /\ UNCHANGED outsideQueue

SpecBacklog == Init /\ [][BacklogNext]_vars

\* the rate limiter under calls of two identifiers and the passage of time
RateNext ==
    \/ \E identifier \in Identifiers :
        increment_rate_limit(identifier) /\ UNCHANGED outsideRate
    \/ Tick /\ UNCHANGED outsideRate

SpecRate == Init /\ [][RateNext]_vars

\* _determine_notification_targets over all its inputs
TargetsNext ==
    \/ ComputeTargets /\ UNCHANGED outsideTargets
    \/ NextMatch /\ UNCHANGED outsideTargets

SpecTargets == Init /\ [][TargetsNext]_vars

\* the admission checks of the hash endpoints and the passage of time
AdmitNext ==
    \/ \E operation \in Operations, source_system \in AdmitSystems :
        RateLimitCheck(operation, source_system) /\ UNCHANGED outsideAdmit
    \/ AdmitTick /\ UNCHANGED outsideAdmit

SpecAdmit == Init /\ [][AdmitNext]_vars

\* one request at a time; store and cache reachable
NoOtherRequest(c) == \A o \in Clients \ {c} : ~HashBusy(o)

HashRequests(c, flags) ==
    \/ \E hashes \in SeqsUpTo(Hashes, MaxBatch), include_metadata \in flags :
        NoOtherRequest(c) /\ StartLookup(c, hashes, include_metadata)
    \/ \E source_system \in HashSystems, records \in SeqsUpTo(RegisterRequests, MaxBatch) :
        /\ NoOtherRequest(c)
        /\ Len(registry) + Len(records) <= MaxRecords
        /\ StartRegister(c, source_system, records)

HashNext ==
    \/ \E c \in Clients : HashRequests(c, BOOLEAN) /\ UNCHANGED outsideHash
    \/ \E c \in Clients : CacheGet(c, "ok") /\ UNCHANGED outsideHash
    \/ \E c \in Clients : QueryDb(c, "ok") /\ UNCHANGED outsideHash
    \/ \E c \in Clients : CacheSet(c, "ok") /\ UNCHANGED outsideHash
    \/ \E c \in Clients : CreateEntry(c, "ok") /\ UNCHANGED outsideHash
    \/ \E c \in Clients : CacheDelete(c, "ok") /\ UNCHANGED outsideHash
    \/ \E c \in Clients : Return(c) /\ UNCHANGED outsideHash
    \/ \E hash_value \in Hashes : ExpireLookup(hash_value) /\ UNCHANGED outsideHash

SpecHash == Init /\ [][HashNext]_vars

\* one client issuing one request at a time; any store or cache call may fail
FaultClients == {"c1"}

HashFaultNext ==
    \/ \E c \in FaultClients : HashRequests(c, {FALSE}) /\ UNCHANGED outsideHash
    \/ \E c \in FaultClients, outcome \in CacheOutcomes :
        CacheGet(c, outcome) /\ UNCHANGED outsideHash
    \/ \E c \in FaultClients, outcome \in StoreOutcomes \ {"nodata"} :
        QueryDb(c, outcome) /\ UNCHANGED outsideHash
    \/ \E c \in FaultClients, outcome \in CacheOutcomes :
        CacheSet(c, outcome) /\ UNCHANGED outsideHash
    \/ \E c \in FaultClients, outcome \in StoreOutcomes :
        CreateEntry(c, outcome) /\ UNCHANGED outsideHash
    \/ \E c \in FaultClients, outcome \in CacheOutcomes :
        CacheDelete(c, outcome) /\ UNCHANGED outsideHash
    \/ \E c \in FaultClients : Return(c) /\ UNCHANGED outsideHash
    \/ \E hash_value \in Hashes : ExpireLookup(hash_value) /\ UNCHANGED outsideHash

SpecHashFaults == Init /\ [][HashFaultNext]_vars

\* a client looking hashes up while another registers: the requests interleave
\* at their awaits; store and cache reachable
HashRaceNext ==
    \/ \E hashes \in SeqsUpTo(Hashes, 1) :
        StartLookup("c1", hashes, FALSE) /\ UNCHANGED outsideHash
    \/ \E source_system \in HashSystems, records \in SeqsUpTo(RegisterRequests, 1) :
        /\ Len(registry) + Len(records) <= MaxRecords
        /\ StartRegister("c2", source_system, records)
        /\ UNCHANGED outsideHash
    \/ \E c \in Clients : CacheGet(c, "ok") /\ UNCHANGED outsideHash
    \/ \E c \in Clients : QueryDb(c, "ok") /\ UNCHANGED outsideHash
    \/ \E c \in Clients : CacheSet(c, "ok") /\ UNCHANGED outsideHash
    \/ \E c \in Clients : CreateEntry(c, "ok") /\ UNCHANGED outsideHash
    \/ \E c \in Clients : CacheDelete(c, "ok") /\ UNCHANGED outsideHash
    \/ \E c \in Clients : Return(c) /\ UNCHANGED outsideHash
    \/ \E hash_value \in Hashes : ExpireLookup(hash_value) /\ UNCHANGED outsideHash

SpecHashRace == Init /\ [][HashRaceNext]_vars

\* one client posting any body to /lookup and any batch to /register, one
\* request at a time; store and cache reachable
HashInputNext ==
    \/ \E c \in FaultClients, body \in RawBatches, include_metadata \in BOOLEAN :
        post_lookup(c, body, include_metadata) /\ UNCHANGED outsideHash
    \/ \E c \in FaultClients, source_system \in HashSystems,
          records \in SeqsUpTo(RegisterRequests, MaxBatch) :
        /\ Len(registry) + Len(records) <= MaxRecords
        /\ StartRegister(c, source_system, records)
        /\ UNCHANGED outsideHash
    \/ \E c \in FaultClients : CacheGet(c, "ok") /\ UNCHANGED outsideHash
    \/ \E c \in FaultClients : QueryDb(c, "ok") /\ UNCHANGED outsideHash
    \/ \E c \in FaultClients : CacheSet(c, "ok") /\ UNCHANGED outsideHash
    \/ \E c \in FaultClients : CreateEntry(c, "ok") /\ UNCHANGED outsideHash
    \/ \E c \in FaultClients : CacheDelete(c, "ok") /\ UNCHANGED outsideHash
    \/ \E c \in FaultClients : Return(c) /\ UNCHANGED outsideHash
    \/ \E hash_value \in Hashes : ExpireLookup(hash_value) /\ UNCHANGED outsideHash

SpecHashInput == Init /\ [][HashInputNext]_vars

\* the subscription endpoints, one request at a time
SubsNext ==
    \/ \E system_id \in Systems, webhook_url \in SubscriberUrls :
        /\ subscribe_webhook(system_id, webhook_url)
        /\ Requested(system_id, "subscribe", webhook_url)
        /\ UNCHANGED outsideSubs
    \/ \E system_id \in Systems :
        /\ unsubscribe_webhook(system_id)
        /\ Requested(system_id, "unsubscribe", NULL)
        /\ UNCHANGED outsideSubs
    \/ \E system_id \in Systems :
        ExpireWebhookUrl(system_id) /\ UNCHANGED outsideSubs /\ UNCHANGED subHist

SpecSubs == Init /\ [][SubsNext]_vars

\* POST /subscribe with any input, DELETE /subscriptions/{system_id}
SubscribeNext ==
    \/ \E system_id \in RequestSystemIds, webhook_url \in RequestUrls :
        post_subscribe(system_id, webhook_url) /\ UNCHANGED outsideSubscribe
    \/ \E system_id \in Systems :
        /\ unsubscribe_webhook(system_id)
        /\ Requested(system_id, "unsubscribe", NULL)
        /\ UNCHANGED outsideSubs

SpecSubscribe == Init /\ [][SubscribeNext]_vars

\* the steps of the worker's start(): loop condition, tick, sleep
WorkerStep ==
    \/ worker_tick /\ process_notification_queue("worker") /\ UNCHANGED outsideWorker
    \/ worker_tick /\ scan_fails("worker") /\ UNCHANGED outsideWorker
    \/ /\ send_webhook_notification("worker")
       /\ worker' = worker_attempt(worker, "worker", disp'["worker"].cur.success)
       /\ UNCHANGED outsideWorker
    \/ /\ send_fails("worker")
       /\ worker' = worker_attempt(worker, "worker", FALSE)
       /\ UNCHANGED outsideWorker
    \/ update_notification("worker") /\ UNCHANGED <<worker, outsideWorker>>
    \/ update_fails("worker") /\ UNCHANGED <<worker, outsideWorker>>
    \/ /\ process_queue_except("worker")
       /\ worker' = worker_after_failure(worker)
       /\ UNCHANGED outsideWorker
    \/ worker_sleeps /\ finish_processing("worker") /\ UNCHANGED outsideWorker
    \/ worker_wakes /\ UNCHANGED outsideWorker
    \/ worker_returns /\ UNCHANGED outsideWorker

\* the steps of a request running send_hash_match_notification
InlineStep ==
    \/ queue_notification /\ UNCHANGED <<worker, outsideWorker>>
    \/ process_notification_queue("inline") /\ UNCHANGED <<worker, outsideWorker>>
    \/ scan_fails("inline") /\ UNCHANGED <<worker, outsideWorker>>
    \/ send_webhook_notification("inline") /\ UNCHANGED <<worker, outsideWorker>>
    \/ send_fails("inline") /\ UNCHANGED <<worker, outsideWorker>>
    \/ update_notification("inline") /\ UNCHANGED <<worker, outsideWorker>>
    \/ update_fails("inline") /\ UNCHANGED <<worker, outsideWorker>>
    \/ process_queue_except("inline") /\ UNCHANGED <<worker, outsideWorker>>
    \/ finish_processing("inline") /\ UNCHANGED <<worker, outsideWorker>>

\* the worker process next to requests that report matches; any call of the
\* store, the cache or the partner may fail
WorkerNext ==
    \/ start /\ UNCHANGED outsideWorker
    \/ stop /\ UNCHANGED outsideWorker
    \/ WorkerStep
    \/ /\ \E match_data \in MatchEvents :
            /\ Len(queue) + Len(determine_notification_targets(match_data)) <= MaxWorkerItems
            /\ send_hash_match_notification(match_data)
       /\ UNCHANGED <<worker, outsideWorker>>
    \/ InlineStep
    \/ \E s \in TargetSystems, u \in Urls :
        subscribe_webhook(s, u) /\ UNCHANGED <<worker, outsideWorker>>

\* the event loop keeps running the worker's coroutine: every sleep ends and
\* every call of the store, the cache or the partner returns or raises
SpecWorker == Init /\ [][WorkerNext]_vars /\ WF_vars(WorkerStep)

TypeOK ==
    /\ \A i \in ItemIds : queue[i].status \in {"pending", "sent", "failed"}
    /\ Len(hist) = Len(queue)

\* ------------------------------------------------------------------------
\* Fairness: the worker loop keeps ticking and a request handler runs on
\* ------------------------------------------------------------------------
Step(d) ==
    \/ NoOtherBusy(d) /\ process_notification_queue(d) /\ UNCHANGED outsideQueue
    \/ send_webhook_notification(d) /\ UNCHANGED outsideQueue
    \/ update_notification(d) /\ UNCHANGED outsideQueue
    \/ finish_processing(d) /\ UNCHANGED outsideQueue

SpecLive == SpecSingle /\ \A d \in Dispatchers : WF_vars(Step(d))

\* ------------------------------------------------------------------------
\* Properties
\* ------------------------------------------------------------------------
Terminal(i) == queue[i].status \in {"sent", "failed"}

\* the update of the row held by dispatcher d happens in this step
Updates(d) == disp[d].pc = "update" /\ disp'[d].pc = "loop"
\* dispatcher d makes its delivery attempt in this step
Sends(d) == disp[d].pc = "loop" /\ disp'[d].pc = "update"
HeldId(d) == Head(disp[d].batch).id

\* C1 as stated: single dispatcher, a fresh item whose first 3 attempts all
\* failed has status=failed, retry_count=3 and sent_at=null.
C1_FailedAfterThree ==
    \A i \in ItemIds :
        (hist[i].failures = 3 /\ hist[i].delivered = 0)
            => /\ queue[i].status = "failed"
               /\ queue[i].retry_count = 3
               /\ queue[i].sent_at = NULL

\* C1 amended: single dispatcher, a fresh item is still pending (retry_count=3)
\* after 3 consecutive failed attempts; it has status=failed, retry_count=3 and
\* sent_at=null after exactly 4 (max_retry_attempts + 1) consecutive failures,
\* and before that it is pending with retry_count = number of failures.
C1_FailedAfterFour ==
    \A i \in ItemIds :
        hist[i].delivered = 0
            => /\ hist[i].failures <= max_retry_attempts + 1
               /\ queue[i].sent_at = NULL
               /\ hist[i].failures = max_retry_attempts + 1
                    => queue[i].status = "failed" /\ queue[i].retry_count = 3
               /\ hist[i].failures <= max_retry_attempts
                    => /\ queue[i].status = "pending"
                       /\ queue[i].retry_count = hist[i].failures

C1_Witness ==
    \E i \in ItemIds :
        /\ hist[i].failures = 4
        /\ hist[i].delivered = 0
        /\ queue[i].status = "failed"

\* C2: a delivery attempt whose POST returns any status in 200..299 moves the
\* item to status=sent with sent_at set.
C2_Any2xxIsSent ==
    [][\A d \in Dispatchers :
         (Updates(d) /\ disp[d].cur.posted /\ disp[d].cur.code \in 200..299)
            => /\ queue'[HeldId(d)].status = "sent"
               /\ queue'[HeldId(d)].sent_at # NULL]_vars

\* C3: for severity high or critical and a reporter r, the targets are all
\* partner systems except r, whatever the existing source system is.
C3_BroadcastMinusReporter ==
    (/\ tgtOut.done
     /\ tgtIn.severity \in {"high", "critical"}
     /\ tgtIn.new_source_system \in Systems)
        => Range(tgtOut.targets) = Systems \ {tgtIn.new_source_system}

\* C4: for severity low, medium or absent, the targets are the existing source
\* system alone when it is present and differs from the reporter, and nobody
\* otherwise.
C4_PointToPoint ==
    (/\ tgtOut.done
     /\ tgtIn.severity \in {"low", "medium", ABSENT}
     /\ tgtIn.new_source_system \in Systems)
        => Range(tgtOut.targets) =
             IF /\ tgtIn.existing_source_system # NULL
                /\ tgtIn.existing_source_system # tgtIn.new_source_system
             THEN {tgtIn.existing_source_system}
             ELSE {}

NoEndpoint(system_id) ==
    /\ urlCache[system_id] = NULL
    /\ ~(subs[system_id].present /\ subs[system_id].active)

\* C6: a delivery attempt for a target with neither a cached URL nor an active
\* subscription makes no POST and is handled like a failed delivery: the row
\* goes back to pending with retry_count+1 while retry_count < 3, to failed
\* once retry_count = 3, and no row is ever removed.
C6_NoEndpointIsFailure ==
    [][/\ \A d \in Dispatchers :
            /\ (Sends(d) /\ NoEndpoint(Head(disp[d].batch).row.target_system))
                 => /\ ~disp'[d].cur.posted
                    /\ ~disp'[d].cur.success
                    /\ hist' = hist
            /\ (Updates(d) /\ ~disp[d].cur.posted)
                 => LET i == HeldId(d)
                    IN  /\ queue'[i].sent_at = NULL
                        /\ queue[i].retry_count < 3
                             => /\ queue'[i].status = "pending"
                                /\ queue'[i].retry_count = queue[i].retry_count + 1
                        /\ queue[i].retry_count >= 3
                             => /\ queue'[i].status = "failed"
                                /\ queue'[i].retry_count = queue[i].retry_count
       /\ Len(queue') >= Len(queue)]_vars

C6_Witness ==
    \E d \in Dispatchers :
        /\ disp[d].pc = "update"
        /\ ~disp[d].cur.posted
        /\ queue[HeldId(d)].retry_count = 3
        /\ NoEndpoint(queue[HeldId(d)].target_system)

\* C7: when executions of processQueue interleave, one item can be delivered
\* successfully more than once (C7_Witness is such a state); a second
\* successful delivery only ever happens to an item that one execution fetched
\* while another still held it.
C7_DuplicatesComeFromRaces ==
    \A i \in ItemIds : hist[i].delivered >= 2 => hist[i].raced

C7_Witness ==
    \E i \in ItemIds : hist[i].delivered >= 2 /\ queue[i].status = "sent"

\* C8: single dispatcher: once an item is sent or failed, no later execution
\* fetches it or attempts it, and its status, retry_count and sent_at never
\* change again.
C8_TerminalStates ==
    [][/\ \A i \in ItemIds : Terminal(i) => queue'[i] = queue[i]
       /\ \A d \in Dispatchers :
            /\ \A i \in disp'[d].skipped :
                 \A k \in 1..Len(disp'[d].batch) : disp'[d].batch[k].id # i
            /\ Sends(d) => ~Terminal(HeldId(d))]_vars

C8_Witness ==
    \E d \in Dispatchers :
        /\ disp[d].pc = "update"
        /\ \E i \in disp[d].skipped : queue[i].status = "failed"

SentAsDelivered ==
    \A i \in ItemIds :
        queue[i].status = "sent"
            => /\ queue[i].sent_at # NULL
               /\ queue[i].retry_count = hist[i].failures
               /\ hist[i].delivered = 1

\* C9: single dispatcher: a successful attempt sets sent_at and leaves
\* retry_count as it was: a sent item has sent_at set and retry_count equal
\* to the number of failed attempts before the success (0 on a first-attempt
\* success).
C9_SuccessKeepsRetryCount ==
    [][/\ SentAsDelivered'
       /\ \A d \in Dispatchers :
            (Updates(d) /\ disp[d].cur.success)
                => /\ queue'[HeldId(d)].status = "sent"
                   /\ queue'[HeldId(d)].sent_at # NULL
                   /\ queue'[HeldId(d)].retry_count = queue[HeldId(d)].retry_count]_vars

C9_Witness ==
    /\ \E i \in ItemIds :
        queue[i].status = "sent" /\ queue[i].retry_count = 0 /\ queue[i].sent_at # NULL
    /\ \E i \in ItemIds :
        queue[i].status = "sent" /\ queue[i].retry_count = 3 /\ hist[i].failures = 3

\* C10: in the 60 s after an identifier's window opens, its Nth call returns
\* N and its counter holds N, whatever calls other identifiers make in between.
C10_NthCallReturnsN ==
    \A identifier \in Identifiers :
        rlHist[identifier].age < window
            => /\ rlHist[identifier].last = rlHist[identifier].calls
               /\ rl[RateKey(identifier)].count = rlHist[identifier].calls

C10_Witness ==
    /\ rlHist["trace"].age < window
    /\ rlHist["trace"].last = 3
    /\ rlHist["grapnel"].age < window
    /\ rlHist["grapnel"].last = 2

\* C11: the counter of an identifier has an expiry whenever it exists, and the
\* expiry is the one set by the first increment of the window: 60 s after the
\* first request of the window the counter is gone, however many requests the
\* identifier made in between.
C11_ExpiryFromFirstIncrement ==
    \A identifier \in Identifiers :
        rl[RateKey(identifier)].count > 0
            => /\ rl[RateKey(identifier)].ttl > 0
               /\ rlHist[identifier].age < window

\* C12: a lookup by system s is rejected exactly when s has made more than
\* 100 lookups in the current window and a registration by s exactly when s
\* has made more than 50 registrations in it: the requests of one kind never
\* count toward the limit of the other.
C12_SeparateBudgets ==
    epHist.last.operation # NULL
        => (epHist.last.rejected <=> epHist.last.made > Limit(epHist.last.operation))

\* a finished lookup and the position of a hash in it
Answered(c) == hreq[c].pc = "done" /\ hreq[c].op = "lookup" /\ hreq[c].status = HTTP_OK

\* C13: sequential requests, store and cache reachable: once a registration
\* has reported a record (hash h, system s, severity v) as registered, every
\* later lookup of h answers found=true with a source entry of system s and
\* severity v, also when a found=false result for h had been cached before.
C13_RegisterThenLookup ==
    \A c \in Clients :
        Answered(c) =>
            \A n \in 1..Len(hreq[c].hashes) :
                \A record \in hashHist.reported :
                    record.hash_value = hreq[c].hashes[n]
                        => /\ hreq[c].matches[n].found
                           /\ \E m \in 1..Len(hreq[c].matches[n].sources) :
                                LET source == hreq[c].matches[n].sources[m]
                                IN  /\ source.system = record.source_system
                                    /\ source.severity = record.severity_level

C13_Witness ==
    \E c \in Clients :
        /\ Answered(c)
        /\ hreq[c].hashes[1] \in hashHist.negative
        /\ hreq[c].matches[1].found
        /\ \E record \in hashHist.reported : record.hash_value = hreq[c].hashes[1]

\* the rows of the table that hold a hash
RowsOf(hash_value) == {i \in 1..Len(registry) : registry[i].hash_value = hash_value}

\* a match result with exactly one source entry per row of the hash
FanIn(match, hash_value) ==
    /\ match.hash = hash_value
    /\ match.found <=> RowsOf(hash_value) # {}
    /\ Len(match.sources) = Cardinality(RowsOf(hash_value))
    /\ \A system \in HashSystems, severity \in HashSeverities :
         Cardinality({m \in 1..Len(match.sources) :
                        /\ match.sources[m].system = system
                        /\ match.sources[m].severity = severity})
           = Cardinality({i \in RowsOf(hash_value) :
                            /\ registry[i].source_system = system
                            /\ registry[i].severity_level = severity})

\* the lookup of client c writes its store result to the cache in this step
WritesBack(c) == hreq[c].pc = "set" /\ hreq'[c].pc # "set"

\* C14: on a cache miss a lookup of h answers with one source entry for every
\* row of the table whose hash_value is h, whichever systems registered them
\* and however often, and then caches exactly that result under h for 300 s.
C14_FanInThenCache ==
    [][\A c \in Clients :
         WritesBack(c)
            => LET hash_value == hreq[c].hashes[hreq[c].k]
                   match_result == hreq[c].matches[hreq[c].k]
               IN  /\ FanIn(match_result, hash_value)
                   /\ hreq'[c].matches[hreq[c].k] = match_result
                   /\ lookupCache'[hash_value].present
                   /\ lookupCache'[hash_value].found = match_result.found
                   /\ lookupCache'[hash_value].sources = match_result.sources
                   /\ lookupCache'[hash_value].expire = 300]_vars

C14_Witness ==
    \E c \in Clients :
        /\ hreq[c].pc = "done"
        /\ hreq[c].op = "lookup"
        /\ hreq[c].cached_results = 0
        /\ Len(hreq[c].matches[1].sources) = 2
        /\ hreq[c].matches[1].sources[1].system # hreq[c].matches[1].sources[2].system
        /\ lookupCache[hreq[c].hashes[1]].sources = hreq[c].matches[1].sources

\* C15: a lookup answers with exactly one match entry per requested hash, in
\* request order; a hash without a row in the table has found=false and no
\* sources, and total_matches is the number of entries with found=true.
C15_OneEntryPerHash ==
    \A c \in Clients :
        Answered(c) =>
            /\ Len(hreq[c].matches) = Len(hreq[c].hashes)
            /\ \A n \in 1..Len(hreq[c].hashes) :
                 /\ hreq[c].matches[n].hash = hreq[c].hashes[n]
                 /\ RowsOf(hreq[c].hashes[n]) = {}
                      => /\ ~hreq[c].matches[n].found
                         /\ hreq[c].matches[n].sources = <<>>
            /\ \E found \in SUBSET (1..Len(hreq[c].matches)) :
                 /\ \A n \in 1..Len(hreq[c].matches) :
                      n \in found <=> hreq[c].matches[n].found
                 /\ hreq[c].total_matches = Cardinality(found)

C15_Witness ==
    \E c \in Clients :
        /\ Answered(c)
        /\ Len(hreq[c].hashes) = 2
        /\ hreq[c].hashes[1] # hreq[c].hashes[2]
        /\ ~hreq[c].matches[1].found
        /\ hreq[c].matches[2].found
        /\ hreq[c].total_matches = 1

\* a finished registration
Registered(c) == hreq[c].pc = "done" /\ hreq[c].op = "register"

\* the positions of a batch whose insert the store accepted
Accepted(c) == {n \in 1..Len(hreq[c].outcomes) : hreq[c].outcomes[n] = "ok"}

\* C16: a batch registration handles its records independently: when the
\* insert of one record fails, every other record is still attempted, every
\* record the store accepted is in the table with its own values, and its
\* lookup-cache entry is invalidated (unless that cache delete itself
\* failed); rows are never removed or changed afterwards.
C16_RecordsAreIndependent ==
    /\ [](\A c \in Clients :
            Registered(c) =>
                /\ Len(hreq[c].outcomes) = Len(hreq[c].records)
                /\ Len(hreq[c].hash_ids) = Cardinality(Accepted(c))
                /\ \A n \in Accepted(c) :
                     /\ \E m \in 1..Len(hreq[c].hash_ids) :
                          LET row == registry[hreq[c].hash_ids[m]]
                          IN  /\ m = Cardinality({a \in Accepted(c) : a <= n})
                              /\ row.hash_value = hreq[c].records[n].hash_value
                              /\ row.severity_level = hreq[c].records[n].severity
                              /\ row.source_system = hreq[c].source_system
                     /\ hreq[c].records[n].hash_value \notin Range(hreq[c].errors)
                          => ~lookupCache[hreq[c].records[n].hash_value].present)
    /\ [][/\ Len(registry') >= Len(registry)
          /\ \A i \in 1..Len(registry) : registry'[i] = registry[i]]_vars

C16_Witness ==
    \E c \in Clients :
        /\ Registered(c)
        /\ hreq[c].outcomes = <<"raise", "ok">>
        /\ hreq[c].errors = <<>>
        /\ hashHist.negative # {}

\* C17: the response of a batch registration accounts for every record: a
\* record whose insert failed is reported in errors, registered_count plus
\* the number of errors is the batch size, no record is counted both as
\* registered and as an error, and success=true (no errors) only when every
\* record was inserted.
C17_EveryRecordAccounted ==
    \A c \in Clients :
        (Registered(c) /\ hreq[c].status = HTTP_OK) =>
            /\ \A n \in 1..Len(hreq[c].records) :
                 n \notin Accepted(c)
                    => hreq[c].records[n].hash_value \in Range(hreq[c].errors)
            /\ hreq[c].registered_count + Len(hreq[c].errors) = Len(hreq[c].records)
            /\ \A n \in Accepted(c) :
                 hreq[c].records[n].hash_value \notin Range(hreq[c].errors)
            /\ hreq[c].errors = <<>>
                 => Accepted(c) = 1..Len(hreq[c].records)

\* C18: with the store unreachable the synchronous paths answer with a server
\* error: a lookup never answers found=false for a hash whose query failed,
\* and a registration never answers success=true (no errors) for a batch
\* with an insert that could not be performed.
C18_StoreFailureIsServerError ==
    \A c \in Clients :
        (hreq[c].pc = "done" /\ hreq[c].status = HTTP_OK) =>
            \A n \in 1..Len(hreq[c].outcomes) :
                hreq[c].outcomes[n] = "raise"
                    => IF hreq[c].op = "lookup"
                       THEN hreq[c].matches[n].found
                       ELSE hreq[c].errors # <<>>

\* C19: a failing cache write or delete never fails the operation around it:
\* a lookup whose cache write failed still answers with the store result, and
\* a registration whose cache delete failed still reports the inserted record
\* as registered, without an error.
C19_CacheFailureIsSwallowed ==
    \A c \in Clients :
        (hreq[c].pc = "done" /\ hreq[c].cache_failed) =>
            /\ hreq[c].status = HTTP_OK
            /\ hreq[c].errors = <<>>
            /\ hreq[c].op = "lookup" => Len(hreq[c].matches) = Len(hreq[c].hashes)
            /\ hreq[c].op = "register" => hreq[c].registered_count = Cardinality(Accepted(c))

\* C20: however subscribe and unsubscribe follow each other, a system has one
\* subscription row at most, so one active subscription at most; after a
\* subscribe the row is active and get returns the URL of that subscribe,
\* also when it follows another subscribe or an unsubscribe, and the URL it
\* caches is the new one (the cache holds it until the entry expires).
C20_LastSubscribeWins ==
    /\ [](\A system_id \in Systems :
            /\ subHist[system_id].last.op = "subscribe"
                 => /\ subs[system_id].present /\ subs[system_id].active
                    /\ get_subscription(system_id) = subHist[system_id].last.webhook_url
                    /\ urlCache[system_id] \in {subHist[system_id].last.webhook_url, NULL}
            /\ subHist[system_id].last.op = "unsubscribe"
                 => get_subscription(system_id) = NULL)
    /\ [][\A system_id \in Systems :
            (subHist'[system_id] # subHist[system_id]
                /\ subHist'[system_id].last.op = "subscribe")
              => urlCache'[system_id] = subHist'[system_id].last.webhook_url]_vars

C20_Witness ==
    /\ subHist["trace"].before = [op |-> "subscribe", webhook_url |-> "http://hook"]
    /\ subHist["trace"].last = [op |-> "subscribe", webhook_url |-> "https://hook2"]
    /\ get_subscription("trace") = "https://hook2"
    /\ urlCache["trace"] = "https://hook2"
    /\ subHist["grapnel"].before.op = "unsubscribe"
    /\ subHist["grapnel"].last.op = "subscribe"
    /\ subs["grapnel"].active

\* the request of this step is an unsubscribe of the system
Unsubscribes(system_id) ==
    /\ subHist'[system_id] # subHist[system_id]
    /\ subHist'[system_id].last.op = "unsubscribe"

\* C21: unsubscribe(s) makes s's row inactive and removes s's cached URL; the
\* row stays, with its webhook_url; rows and cache entries of other systems
\* do not change; get(s) answers not-found from then on until s subscribes
\* again; and unsubscribing a system without a row changes nothing.
C21_UnsubscribeFrame ==
    /\ [][\A system_id \in Systems :
            Unsubscribes(system_id)
              => /\ subs'[system_id].present = subs[system_id].present
                 /\ subs'[system_id].webhook_url = subs[system_id].webhook_url
                 /\ ~subs'[system_id].active
                 /\ urlCache'[system_id] = NULL
                 /\ \A other \in Systems \ {system_id} :
                      subs'[other] = subs[other] /\ urlCache'[other] = urlCache[other]
                 /\ ~subs[system_id].present
                      => subs' = subs /\ urlCache' = urlCache]_vars
    /\ [](\A system_id \in Systems :
            subHist[system_id].last.op = "unsubscribe"
                => get_subscription(system_id) = NULL /\ urlCache[system_id] = NULL)

C21_Witness ==
    /\ subHist["trace"].last.op = "unsubscribe"
    /\ subHist["trace"].before = [op |-> "subscribe", webhook_url |-> "https://hook2"]
    /\ subs["trace"] = [present |-> TRUE, webhook_url |-> "https://hook2", active |-> FALSE]
    /\ get_subscription("grapnel") = "http://hook"
    /\ urlCache["grapnel"] = "http://hook"
    /\ subHist["takedown"].last.op = "unsubscribe"
    /\ ~subs["takedown"].present

\* C22: a subscribe whose URL does not begin with http:// or https://, or
\* whose system_id is not trace, grapnel or takedown, is answered with a
\* client error and leaves the subscription table and the webhook URL cache as
\* they were.
C22_InvalidSubscribeRejected ==
    [][subResp' # subResp
        => LET url == subResp'.webhook_url
               http == Len(url) >= 7 /\ SubSeq(url, 1, 7) = <<"h", "t", "t", "p", ":", "/", "/">>
               https == Len(url) >= 8
                          /\ SubSeq(url, 1, 8) = <<"h", "t", "t", "p", "s", ":", "/", "/">>
           IN  (~(http \/ https) \/ subResp'.system_id \notin {"trace", "grapnel", "takedown"})
                 => /\ subResp'.status \in 400..499
                    /\ subs' = subs
                    /\ urlCache' = urlCache]_vars

C22_Witness ==
    /\ subResp.status = 400
    /\ subResp.system_id = "trace"
    /\ subResp.webhook_url = <<"f", "t", "p", ":", "/", "/", "h">>
    /\ get_subscription("trace") = "https://h"
    /\ urlCache["trace"] = "https://h"


\* the source systems other than source_system that hold a record of hash_value
OtherHolders(hash_value, source_system) ==
    {registry[i].source_system : i \in RowsOf(hash_value)} \ {source_system}

\* the hashes a finished registration stored while another system held them
MatchedHashes(c) ==
    {hreq[c].records[n].hash_value : n \in Accepted(c)} \cap
    {h \in Hashes : OtherHolders(h, hreq[c].source_system) # {}}

\* C23: when a registration has stored a record of a hash that another source
\* system already holds, the match is detected and enqueued: a queue item
\* (pending or in a later state) addressed to a system that holds the hash
\* exists once the registration has answered
C23_RegisterEnqueuesMatch ==
    \A c \in Clients :
        Registered(c) =>
            \A h \in MatchedHashes(c) :
                \E i \in ItemIds :
                    queue[i].target_system \in OtherHolders(h, hreq[c].source_system)


\* a _queue_notification call happens in this step
Enqueues == req.pc = "queue" /\ Len(queue') = Len(queue) + 1

\* the queue rows of one match
MatchRows(match_id) == {i \in ItemIds : queue[i].match_id = match_id}

\* the enqueue loop of the match is still running
Enqueuing(match_id) == req.pc = "queue" /\ req.match_id = match_id /\ req.todo # <<>>

\* C24: a match with computed targets T gets exactly |T| new queue rows, one
\* per target, all with its match_id; each row is created pending with
\* retry_count 0 and no sent_at, and creating it changes no row that existed
C24_OneNewItemPerTarget ==
    /\ [][Enqueues =>
            LET new == queue'[Len(queue')]
            IN  /\ new.status = "pending"
                /\ new.retry_count = 0
                /\ new.sent_at = NULL
                /\ new.match_id = req.match_id
                /\ new.match_id \notin {queue[i].match_id : i \in ItemIds} \ {req.match_id}
                /\ \A i \in ItemIds : queue'[i] = queue[i]]_vars
    /\ [](\A m \in {queue[i].match_id : i \in ItemIds} :
            ~Enqueuing(m) =>
                LET T == determine_notification_targets(
                             queue[CHOOSE i \in MatchRows(m) : TRUE].payload)
                IN  /\ Cardinality(MatchRows(m)) = Len(T)
                    /\ \A t \in Range(T) :
                         Cardinality({i \in MatchRows(m) : queue[i].target_system = t}) = 1)

\* a match with two targets has been enqueued and its inline tick has begun
C24_Witness ==
    /\ req.pc = "process"
    /\ Cardinality(MatchRows(req.match_id)) = 2
    /\ Len(determine_notification_targets(req.match_data)) = 2


\* C25: every POST made for a queue row, in its first attempt and in every
\* retry, carries the id of that row as notification_id, the row's
\* notification_type as event and the row's payload as data; no notification_id
\* is carried by the POSTs of two different rows
C25_StableNotificationId ==
    /\ \A i \in ItemIds :
          \A p \in hist[i].posts :
              /\ p.payload.notification_id = i
              /\ p.payload.event = queue[i].notification_type
              /\ p.payload.data = queue[i].payload
    /\ \A i, j \in ItemIds :
          i # j => {p.payload.notification_id : p \in hist[i].posts} \cap
                   {p.payload.notification_id : p \in hist[j].posts} = {}

\* two rows of one match have both been POSTed, one of them in a failed
\* attempt and again in a retry that succeeded
C25_Witness ==
    \E i, j \in ItemIds :
        /\ i # j
        /\ queue[i].match_id = queue[j].match_id
        /\ {p.success : p \in hist[i].posts} = BOOLEAN
        /\ hist[j].posts # {}


\* the worker begins a tick in this step
BeginsTick == worker.pc = "check" /\ worker'.pc = "tick"

\* C26: once stop() has been called on the running loop, the worker begins
\* no further tick and start() returns; stop() itself only clears the flag,
\* the tick under way keeps its batch and its position
C26_StopEndsLoop ==
    /\ [][worker.stopped => ~BeginsTick]_vars
    /\ [][worker.running /\ ~worker'.running =>
            /\ worker'.pc = worker.pc
            /\ UNCHANGED <<queue, disp, req>>]_vars
    /\ worker.stopped ~> worker.pc = "returned"

\* stop() was called during a tick, and that tick is still under way: it has
\* made its delivery attempt and is about to write the row
C26_Witness ==
    /\ worker.stopped
    /\ worker.pc = "tick"
    /\ disp["worker"].pc = "update"
    /\ disp["worker"].cur.posted

\* a failing call ends the tick of dispatcher d in this step
TickFails(d) == disp[d].pc = "except" /\ disp'[d].pc = "idle"

\* C27: a failure of the store, the cache or the partner during a tick never
\* ends the worker loop, which only stop() ends, and is not raised to the
\* request running send_hash_match_notification, which returns; while the
\* running flag is set, a tick with a failure is followed by another tick
C27_FailuresNeverEndLoop ==
    /\ [](worker.pc = "returned" => worker.stopped)
    /\ [][TickFails("inline") => req' = IdleRequest]_vars
    /\ (worker.failed /\ worker.running) ~> (~worker.failed \/ ~worker.running)

\* the update of a row has raised inside the worker's tick while the running
\* flag is set: control is in the except clause, rows of the batch are left
C27_Witness ==
    /\ worker.pc = "tick"
    /\ worker.running
    /\ disp["worker"].pc = "except"
    /\ disp["worker"].batch # <<>>


\* the request of client c carries an empty batch
EmptyBatch(c) ==
    \/ hreq[c].op = "lookup" /\ hreq[c].body = <<>>
    \/ hreq[c].op = "register" /\ hreq[c].records = <<>>

ClientError(status) == status \in 400..499

\* C28: a lookup with an empty list of hashes and a register with an empty
\* list of records are answered with a client error, without any store query,
\* store insert or lookup-cache write
C28_EmptyBatchRejected ==
    \A c \in Clients :
        HashBusy(c) /\ EmptyBatch(c) =>
            /\ hreq[c].pc = "done"
            /\ ClientError(hreq[c].status)
            /\ hreq[c].outcomes = <<>>


\* normalize: every hash of the body trimmed and lower-cased
Normalized(body) == [k \in 1..Len(body) |-> Cleaned(body[k])]

\* what the service sees of a request: everything but the body as sent
Service(r) == [r EXCEPT !.body = <<>>]

\* client c posts a lookup in this step
PostsLookup(c) == hreq[c].pc = "idle" /\ hreq'[c].op = "lookup"

\* C29: a lookup posted with a body x is rejected or enters the service in
\* exactly the state the same lookup posted with normalize(x) would: both are
\* rejected alike or carry the same cleaned hashes, hence the same cache keys
\* and store queries, and the same answer from the same system state
C29_NormalizationIdempotent ==
    [][\A c \in Clients :
         PostsLookup(c) =>
            Service(hreq'[c]) =
                Service(lookup_request(Normalized(hreq'[c].body),
                                       hreq'[c].include_metadata))]_vars

\* a lookup sent with surrounding whitespace and a capital was accepted and
\* has found the record stored under the cleaned hash
C29_Witness ==
    \E c \in Clients :
        /\ Answered(c)
        /\ hreq[c].body # Normalized(hreq[c].body)
        /\ hreq[c].hashes = <<"aaaaaaaa">>
        /\ hreq[c].matches[1].found


\* C30: under any interleaving of executions of _process_notification_queue,
\* a row whose status has become sent stays sent and keeps its sent_at
C30_SentIsFinal ==
    [][\A i \in ItemIds :
         queue[i].status = "sent" =>
            /\ queue'[i].status = "sent"
            /\ queue'[i].sent_at = queue[i].sent_at]_vars


\* the delivery attempts made for row i: those written as failures, those
\* answered with success, and the failed ones not written yet
Attempts(i) ==
    hist[i].failures + hist[i].delivered +
    Cardinality({d \in Dispatchers :
                    /\ disp[d].pc = "update"
                    /\ HeldId(d) = i
                    /\ ~disp[d].cur.success})

\* C31: under any interleaving of dispatchers, at most 4 delivery attempts
\* are made for one row (the first and max_retry_attempts retries), and the
\* retry_count of a row never decreases
C31_RetriesBounded ==
    /\ [](\A i \in ItemIds : Attempts(i) <= max_retry_attempts + 1)
    /\ [][\A i \in ItemIds : queue'[i].retry_count >= queue[i].retry_count]_vars


\* C32: in every reachable state, also under concurrent dispatchers, a row
\* has a status among pending, sent and failed, a retry_count from 0 to
\* max_retry_attempts, and a failed row has retry_count max_retry_attempts
C32_StatusAndRetryRange ==
    \A i \in ItemIds :
        /\ queue[i].status \in {"pending", "sent", "failed"}
        /\ queue[i].retry_count \in 0..max_retry_attempts
        /\ queue[i].status = "failed" => queue[i].retry_count = max_retry_attempts

\* a row has failed for good while another execution still holds its snapshot
C32_Witness ==
    \E i \in ItemIds :
        /\ queue[i].status = "failed"
        /\ hist[i].raced

\* C33: in every reachable state, also under concurrent dispatchers, a row
\* has a sent_at exactly when its status is sent
C33_SentAtIffSent ==
    \A i \in ItemIds : queue[i].sent_at # NULL <=> queue[i].status = "sent"

\* a row was sent after two executions had fetched it while pending
C33_Witness ==
    \E i \in ItemIds :
        /\ queue[i].status = "sent"
        /\ queue[i].sent_at # NULL
        /\ hist[i].raced


\* C34: a row is sent only if a POST carrying its id was made to a resolved
\* URL and answered with success, under any interleaving of the worker and
\* the inline execution and any failure of the store, the cache or the partner
C34_SentMeansDelivered ==
    \A i \in ItemIds :
        queue[i].status = "sent" =>
            \E p \in hist[i].posts : p.success /\ p.payload.notification_id = i

\* a row is sent although attempts for it failed and its executions overlapped
C34_Witness ==
    \E i \in ItemIds :
        /\ queue[i].status = "sent"
        /\ hist[i].failures >= 1
        /\ hist[i].raced


\* no request is between its first and its last store or cache call
Quiescent == \A c \in Clients : hreq[c].pc \in {"idle", "done"}

\* the cache entry of a hash tells what the table holds for it
Fresh(hash_value) ==
    LET entry == lookupCache[hash_value]
    IN  entry.present =>
            /\ entry.found = (RowsOf(hash_value) # {})
            /\ Len(entry.sources) = Cardinality(RowsOf(hash_value))
            /\ {entry.sources[n].system : n \in 1..Len(entry.sources)} =
               {registry[i].source_system : i \in RowsOf(hash_value)}

\* C35: under any interleaving of a lookup with a registration of the same
\* hash, once both have completed the lookup cache holds no stale result for
\* the hash, so that a later lookup finds the newly registered source
C35_NoStaleEntryAfterRace ==
    Quiescent => \A h \in Hashes : Fresh(h)


\* C36: the cache holds a webhook URL for a system only while the store has
\* an active subscription of that system with that URL, so that no attempt
\* begun after an unsubscribe resolves a URL, also when an execution was
\* resolving the URL while the unsubscribe ran
C36_NoUrlAfterUnsubscribe ==
    \A s \in Systems :
        urlCache[s] # NULL =>
            /\ subs[s].present
            /\ subs[s].active
            /\ subs[s].webhook_url = urlCache[s]


\* C37: with one request at a time and store and cache reachable, every lookup
\* answers, for each requested hash, what a lookup without a cache answers:
\* the result of querying the store with the lookup's own include_metadata
\* flag, metadata present exactly when that flag asks for it.
C37_CacheIsPureAccelerator ==
    \A c \in Clients :
        (Answered(c) /\ hreq[c].op = "lookup") =>
            \A n \in 1..Len(hreq[c].hashes) :
                hreq[c].matches[n] =
                    query_hash_from_db(hreq[c].hashes[n], hreq[c].include_metadata, "ok")


\* the store query of the lookup of client c at its current hash failed
QueryFailed(c) == hreq[c].outcomes[Len(hreq[c].outcomes)] = "raise"

\* C38: a lookup whose store query failed leaves the lookup cache as it was,
\* so that no found=false result of an outage is answered from the cache
\* after the store has recovered.
C38_FailedQueryNotCached ==
    [][\A c \in Clients :
         (WritesBack(c) /\ QueryFailed(c)) => lookupCache' = lookupCache]_vars


\* the fields of a queue row that an execution may write, blanked
Immutable(row) == [row EXCEPT !.status = NULL, !.retry_count = 0, !.sent_at = NULL]

BatchIds(d) == {disp[d].batch[k].id : k \in 1..Len(disp[d].batch)}

\* C39: an execution of _process_notification_queue holds at most 10 rows,
\* each once and each pending when fetched, and takes a row off its batch as
\* it writes it; its steps change only status, retry_count and sent_at of the
\* row being written, keep every other field and every other row, add and
\* remove no queue row, and leave hash records and subscription rows alone.
C39_ProcessQueueFrame ==
    [][\A d \in Dispatchers :
         /\ Len(disp'[d].batch) <= ScanLimit
         /\ Cardinality(BatchIds(d)') = Len(disp'[d].batch)
         /\ \A k \in 1..Len(disp'[d].batch) :
              /\ disp'[d].batch[k].row.status = "pending"
              /\ disp[d].pc = "idle" => disp'[d].batch[k].row = queue[disp'[d].batch[k].id]
         /\ disp'[d] # disp[d] =>
              /\ Len(queue') = Len(queue)
              /\ \A i \in ItemIds :
                   /\ Immutable(queue'[i]) = Immutable(queue[i])
                   /\ queue'[i] # queue[i] => Updates(d) /\ i = HeldId(d)
              /\ Updates(d) => HeldId(d) \notin BatchIds(d)'
              /\ registry' = registry
              /\ subs' = subs]_vars

\* an execution that fetched 10 of more than 10 pending rows has written the
\* first of them and holds the other 9
C39_Witness ==
    \E d \in Dispatchers :
        /\ Cardinality(PendingIds) > ScanLimit
        /\ Len(disp[d].batch) = ScanLimit - 1
        /\ \E i \in ItemIds : queue[i].retry_count > 0 /\ i \notin BatchIds(d)


\* the systems that have a queue row of the match
Notified(match_id) == {queue[i].target_system : i \in MatchRows(match_id)}

\* C40: once the request of a match has left its enqueue loop, the match has
\* either no queue row or a row for every computed target, also when the
\* insert or the mirror write for one of the targets failed.
C40_EnqueueAllOrNothing ==
    \A i \in ItemIds :
        ~Enqueuing(queue[i].match_id)
            => Notified(queue[i].match_id) =
                   Range(determine_notification_targets(queue[i].payload))

====
